---------------------------- MODULE Spec2Model ----------------------------
(***************************************************************************)
(* hitpag: a front end that turns "operate on SOURCE to/from TARGET" into  *)
(* one invocation of an external archiver.  The model covers the format    *)
(* recognition (file_type), the target conflict resolver (target_path),    *)
(* the command flows of main() and interactive::run(), and the parts of    *)
(* operation::compress / operation::decompress that decide the outcome.    *)
(*                                                                         *)
(* Paths and file names are TLA+ strings; a character is a string of       *)
(* length one (Char).  Positions in strings are 1-based and 0 stands for   *)
(* std::string::npos.                                                      *)
(***************************************************************************)
EXTENDS Integers, Sequences, FiniteSets, TLC

(***************************************************************************)
(* Strings                                                                 *)
(***************************************************************************)
Char(s, i) == SubSeq(s, i, i)

\* s.substr(from) with a 1-based first position
SubstrFrom(s, from) == SubSeq(s, from, Len(s))

\* std::string::find_last_of(c): the last position of c in s, 0 when absent
FindLastOf(s, c) ==
    LET hits == {i \in 1..Len(s) : Char(s, i) = c}
    IN  IF hits = {} THEN 0 ELSE CHOOSE i \in hits : \A j \in hits : j <= i

\* filename.compare(filename.size() - ext.size(), ext.size(), ext) == 0
EndsWith(s, suffix) ==
    /\ Len(s) >= Len(suffix)
    /\ SubSeq(s, Len(s) - Len(suffix) + 1, Len(s)) = suffix

StartsWith(s, prefix) ==
    /\ Len(s) >= Len(prefix)
    /\ SubSeq(s, 1, Len(prefix)) = prefix

IsSpace(c) == c \in {" ", "\t", "\n", "\r"}

\* util::trim_copy: strips leading and trailing " \t\n\r"
trim_copy(value) ==
    LET keep == {i \in 1..Len(value) : ~IsSpace(Char(value, i))}
    IN  IF keep = {} THEN ""
        ELSE LET first == CHOOSE i \in keep : \A j \in keep : i <= j
                 last  == CHOOSE i \in keep : \A j \in keep : j <= i
             IN  SubSeq(value, first, last)

(***************************************************************************)
(* std::filesystem::path, lexically (generic format, '/' separator)        *)
(***************************************************************************)
\* fs::path::filename(): what follows the last separator
filename(p) == SubstrFrom(p, FindLastOf(p, "/") + 1)

\* fs::path::parent_path(): what precedes the last separator ("/" for "/x")
parent_path(p) ==
    LET pos == FindLastOf(p, "/")
    IN  IF pos = 0 THEN ""
        ELSE IF pos = 1 THEN "/"
        ELSE SubSeq(p, 1, pos - 1)

\* fs::path operator/ for a relative right-hand side
PathJoin(parent, name) ==
    IF parent = "" THEN name
    ELSE IF EndsWith(parent, "/") THEN parent \o name
    ELSE parent \o "/" \o name

(***************************************************************************)
(* target_path::generate_sequential_candidate                              *)
(***************************************************************************)
multi_extensions == <<".tar.gz", ".tar.bz2", ".tar.xz", ".tar.zst", ".tar.lz4">>

\* the first compound extension the file name ends with (and is longer than)
MultiExtOf(fname) ==
    LET hits == {k \in 1..Len(multi_extensions) :
                    /\ Len(fname) > Len(multi_extensions[k])
                    /\ EndsWith(fname, multi_extensions[k])}
    IN  IF hits = {} THEN ""
        ELSE multi_extensions[CHOOSE k \in hits : \A j \in hits : k <= j]

\* [stem, extension] of a file name, as lines 257-281 compute them
SplitName(fname) ==
    LET mext  == MultiExtOf(fname)
        pos   == FindLastOf(fname, ".")
        split == IF mext # ""
                   THEN [stem |-> SubSeq(fname, 1, Len(fname) - Len(mext)),
                         extension |-> mext]
                 ELSE IF pos = 0 \/ pos = 1
                   THEN [stem |-> fname, extension |-> ""]
                 ELSE [stem |-> SubSeq(fname, 1, pos - 1),
                       extension |-> SubstrFrom(fname, pos)]
    IN  IF split.stem = "" \/ split.stem = "." \/ split.stem = ".."
          THEN [split EXCEPT !.stem = "target"]
          ELSE split

\* a mutation: the counter is not part of the generated name
generate_sequential_candidate_M(base_path, suffix_index) ==
    LET parts == SplitName(filename(base_path))
    IN  PathJoin(parent_path(base_path), parts.stem \o "_1" \o parts.extension)

generate_sequential_candidate(base_path, suffix_index) ==
    LET parts == SplitName(filename(base_path))
        suffixed_name == parts.stem \o "_" \o ToString(suffix_index) \o parts.extension
    IN  PathJoin(parent_path(base_path), suffixed_name)

(***************************************************************************)
(* file_type: extension classifier                                         *)
(***************************************************************************)
FileTypes == {"REGULAR_FILE", "DIRECTORY", "ARCHIVE_TAR", "ARCHIVE_TAR_GZ",
              "ARCHIVE_TAR_BZ2", "ARCHIVE_TAR_XZ", "ARCHIVE_ZIP", "ARCHIVE_RAR",
              "ARCHIVE_7Z", "ARCHIVE_LZ4", "ARCHIVE_ZSTD", "ARCHIVE_XAR", "UNKNOWN"}

UpperCase == "ABCDEFGHIJKLMNOPQRSTUVWXYZ"
LowerCase == "abcdefghijklmnopqrstuvwxyz"

\* std::tolower on one character
ToLowerChar(c) ==
    LET hits == {k \in 1..Len(UpperCase) : Char(UpperCase, k) = c}
    IN  IF hits = {} THEN c ELSE Char(LowerCase, CHOOSE k \in hits : TRUE)

RECURSIVE ToLower(_)
\* std::transform(..., tolower) over a string
ToLower(s) == IF s = "" THEN "" ELSE ToLowerChar(Char(s, 1)) \o ToLower(SubstrFrom(s, 2))

IsDigit(c) == c \in {"0", "1", "2", "3", "4", "5", "6", "7", "8", "9"}

\* fs::path::extension(): from the last '.' of the file name; empty for ".",
\* ".." and for a name whose only '.' is its first character
extension(p) ==
    LET fname == filename(p)
        pos   == FindLastOf(fname, ".")
    IN  IF fname = "." \/ fname = ".." \/ pos = 0 \/ pos = 1 THEN ""
        ELSE SubstrFrom(fname, pos)

\* fs::path::stem(): the file name without its extension
stem(p) ==
    LET fname == filename(p)
    IN  SubSeq(fname, 1, Len(fname) - Len(extension(p)))

is_split_zip_extension(ext_lower) ==
    /\ Len(ext_lower) = 4
    /\ Char(ext_lower, 1) = "."
    /\ Char(ext_lower, 2) = "z"
    /\ IsDigit(Char(ext_lower, 3))
    /\ IsDigit(Char(ext_lower, 4))

recognize_by_extension(path_str) ==
    LET ext      == ToLower(extension(path_str))
        stem_ext == ToLower(extension(stem(path_str)))
    IN  IF extension(path_str) = "" THEN "UNKNOWN"
        ELSE IF ext = ".tar" THEN "ARCHIVE_TAR"
        ELSE IF ext = ".zip" THEN "ARCHIVE_ZIP"
        ELSE IF is_split_zip_extension(ext) THEN "ARCHIVE_ZIP"
        ELSE IF ext = ".rar" THEN "ARCHIVE_RAR"
        ELSE IF ext = ".7z" THEN "ARCHIVE_7Z"
        ELSE IF ext = ".lz4" THEN "ARCHIVE_LZ4"
        ELSE IF ext = ".zst" \/ ext = ".zstd" THEN "ARCHIVE_ZSTD"
        ELSE IF ext = ".xar" THEN "ARCHIVE_XAR"
        ELSE IF ext = ".tgz" THEN "ARCHIVE_TAR_GZ"
        ELSE IF ext = ".tbz2" \/ ext = ".tbz" THEN "ARCHIVE_TAR_BZ2"
        ELSE IF ext = ".txz" THEN "ARCHIVE_TAR_XZ"
        ELSE IF stem(path_str) # "" /\ extension(stem(path_str)) # "" /\ stem_ext = ".tar"
               /\ ext \in {".gz", ".bz2", ".xz"}
          THEN CASE ext = ".gz"  -> "ARCHIVE_TAR_GZ"
                 [] ext = ".bz2" -> "ARCHIVE_TAR_BZ2"
                 [] ext = ".xz"  -> "ARCHIVE_TAR_XZ"
        ELSE "UNKNOWN"

(***************************************************************************)
(* file_type: signature sniffer                                            *)
(*                                                                         *)
(* A file's content is [len, sig, fill, ustar, readable]: its length, its  *)
(* first bytes, the byte every other offset holds, whether "ustar" sits at *)
(* offset 257, and whether it can be opened.  Offsets are 0-based, as in   *)
(* the code.                                                               *)
(***************************************************************************)
Min(a, b) == IF a <= b THEN a ELSE b
Max(a, b) == IF a >= b THEN a ELSE b

UstarBytes == <<117, 115, 116, 97, 114>>

\* the byte stored at an offset below the file's length
ByteAt(f, off) ==
    IF off < Len(f.sig) THEN f.sig[off + 1]
    ELSE IF f.ustar /\ off >= 257 /\ off < 257 + Len(UstarBytes) THEN UstarBytes[off - 257 + 1]
    ELSE f.fill

\* istream::read(buf, n) after seekg(pos): gcount, and the zero-initialised
\* buffer with the bytes read
ReadCount(f, pos, n) == Max(0, Min(n, f.len - pos))
ReadBuf(f, pos, n) ==
    [i \in 0..(n - 1) |-> IF i < ReadCount(f, pos, n) THEN ByteAt(f, pos + i) ELSE 0]
\* istream::read sets failbit (with eofbit) when fewer than n bytes were read
ReadFails(f, pos, n) == ReadCount(f, pos, n) < n

\* the legacy tar test of lines 769-788 on the block read at offset 0
LegacyTarBlock(tar_block, gcount) ==
    /\ gcount >= 512
    /\ \E i \in 0..99 : tar_block[i] # 0
    /\ \A i \in 0..99 : tar_block[i] # 0 => (tar_block[i] >= 32 /\ tar_block[i] <= 126)

LooksLikeLegacyTar(f) == LegacyTarBlock(ReadBuf(f, 0, 512), ReadCount(f, 0, 512))

\* lines 705-791 on the 16 bytes read into header, gcount of them really read,
\* and the 6 bytes read at offset 257
HeaderType(f, header, gcount, tar_header) ==
    IF gcount < 4 \/ ReadFails(f, 0, 16) THEN "UNKNOWN"
    ELSE IF /\ header[0] = 80 /\ header[1] = 75
            /\ \/ (header[2] = 3 /\ header[3] = 4)
               \/ (header[2] = 5 /\ header[3] = 6)
               \/ (header[2] = 1 /\ header[3] = 2)
      THEN "ARCHIVE_ZIP"
    ELSE IF header[0] = 82 /\ header[1] = 97 /\ header[2] = 114 /\ header[3] = 33
      THEN "ARCHIVE_RAR"
    ELSE IF /\ gcount >= 6 /\ header[0] = 55 /\ header[1] = 122 /\ header[2] = 188
            /\ header[3] = 175 /\ header[4] = 39 /\ header[5] = 28
      THEN "ARCHIVE_7Z"
    ELSE IF header[0] = 31 /\ header[1] = 139 THEN "ARCHIVE_TAR_GZ"
    ELSE IF header[0] = 66 /\ header[1] = 90 /\ header[2] = 104 THEN "ARCHIVE_TAR_BZ2"
    ELSE IF /\ gcount >= 6 /\ header[0] = 253 /\ header[1] = 55 /\ header[2] = 122
            /\ header[3] = 88 /\ header[4] = 90 /\ header[5] = 0
      THEN "ARCHIVE_TAR_XZ"
    ELSE IF header[0] = 4 /\ header[1] = 34 /\ header[2] = 77 /\ header[3] = 24
      THEN "ARCHIVE_LZ4"
    ELSE IF \/ (header[0] = 40 /\ header[1] = 181 /\ header[2] = 47 /\ header[3] = 253)
            \/ (header[0] = 34 /\ header[1] = 181 /\ header[2] = 47 /\ header[3] = 253)
      THEN "ARCHIVE_ZSTD"
    ELSE IF /\ ReadCount(f, 257, 6) >= 5
            /\ \A i \in 0..4 : tar_header[i] = UstarBytes[i + 1]
      THEN "ARCHIVE_TAR"
    ELSE IF LooksLikeLegacyTar(f) THEN "ARCHIVE_TAR"
    ELSE "UNKNOWN"

\* lines 700-703: a file that cannot be opened is Unknown; else read 16 bytes
recognize_by_header(f) ==
    IF ~f.readable THEN "UNKNOWN"
    ELSE HeaderType(f, ReadBuf(f, 0, 16), ReadCount(f, 0, 16), ReadBuf(f, 257, 6))

\* a mutation: a file that neither test recognises stays Unknown
FallBack_NoRegular(by_header, by_extension) ==
    IF by_header # "UNKNOWN" THEN by_header ELSE by_extension

\* file_type::recognize_source_type on an existing regular file
\* lines 805-810: the header's verdict, else the extension's, else a plain file
FallBack(by_header, by_extension) ==
    IF by_header # "UNKNOWN" THEN by_header
    ELSE IF by_extension # "UNKNOWN" THEN by_extension
    ELSE "REGULAR_FILE"

RegularFileType(path_str, f) ==
    FallBack(recognize_by_header(f), recognize_by_extension(path_str))

\* file_type::parse_format_string
parse_format_string(format_str) ==
    LET fmt == ToLower(format_str)
    IN  IF fmt = "zip" THEN "ARCHIVE_ZIP"
        ELSE IF fmt = "7z" THEN "ARCHIVE_7Z"
        ELSE IF fmt = "tar" THEN "ARCHIVE_TAR"
        ELSE IF fmt = "tar.gz" \/ fmt = "tgz" THEN "ARCHIVE_TAR_GZ"
        ELSE IF fmt = "tar.bz2" \/ fmt = "tbz2" THEN "ARCHIVE_TAR_BZ2"
        ELSE IF fmt = "tar.xz" \/ fmt = "txz" THEN "ARCHIVE_TAR_XZ"
        ELSE IF fmt = "rar" THEN "ARCHIVE_RAR"
        ELSE IF fmt = "lz4" THEN "ARCHIVE_LZ4"
        ELSE IF fmt = "zstd" \/ fmt = "zst" THEN "ARCHIVE_ZSTD"
        ELSE IF fmt = "xar" THEN "ARCHIVE_XAR"
        ELSE "UNKNOWN"

(***************************************************************************)
(* error::ErrorCode                                                        *)
(***************************************************************************)
ErrorCodeValue(code) ==
    CASE code = "SUCCESS"          -> 0
      [] code = "MISSING_ARGS"     -> 1
      [] code = "INVALID_SOURCE"   -> 2
      [] code = "INVALID_TARGET"   -> 3
      [] code = "SAME_PATH"        -> 4
      [] code = "UNKNOWN_FORMAT"   -> 5
      [] code = "TOOL_NOT_FOUND"   -> 6
      [] code = "OPERATION_FAILED" -> 7
      [] code = "UNKNOWN_ERROR"    -> 99

(***************************************************************************)
(* State                                                                   *)
(***************************************************************************)
VARIABLES
    files,              \* the regular files on disk (canonical paths)
    dirs,               \* the directories on disk (canonical paths)
    content,            \* the content of each regular file of the initial disk
    start,              \* the disk, and the parsed sources, when the command started
    mode,               \* "single", "multi" (two or more sources) or "interactive"
    source_paths,       \* options.source_paths
    target_path,        \* options.target_path, the resolver's in/out parameter
    force_format,       \* options.force_format
    pc,                 \* where the command is
    op,                 \* the inferred (or chosen) operation
    source_type,        \* RecognitionResult.source_type
    target_type,        \* RecognitionResult.target_type_hint / target_format
    original_target,    \* resolve_existing_target: original_target
    rename_base,        \* resolve_existing_target: rename_base
    suffix_counter,     \* resolve_existing_target: suffix_counter
    default_candidate,  \* the default proposed by the pending rename prompt
    exit_code,          \* the process's exit status once pc = "exited"
    prompts,            \* how many times the resolver has asked for input
    removed,            \* the paths the resolver has removed
    tool_runs,          \* how many external archiver processes were started
    last_msg,           \* the last message the resolver emitted
    last_entry,         \* the last rename entry the resolver examined ...
    last_default,       \* ... the default that prompt proposed ...
    last_counter,       \* ... and the counter and base it was built from
    last_base,
    source_deleted,     \* interactive mode removed the source afterwards
    confirmed_delete,   \* interactive::run: delete_source, the answer of line 1797
    base_dir,           \* operation::compress: base_dir (a canonical path)
    items_to_archive,   \* operation::compress: items_to_archive
    working_dir_for_cmd, \* operation::compress: working_dir_for_cmd
    thread_count,       \* options.thread_count
    verify,             \* options.verify
    compression_level,  \* options.compression_level
    password,           \* options.password
    exclude_patterns,   \* options.exclude_patterns
    include_patterns,   \* options.include_patterns
    executed,           \* the commands execute_command has run: tool, args,
                        \* working_dir, and the exit status it returned
    probed,             \* the calls of is_tool_available: tool, and the answer
    reported            \* the messages operation::compress / decompress have printed

vars == <<files, dirs, content, start, mode, source_paths, target_path, force_format, pc, op,
          source_type, target_type, original_target, rename_base, suffix_counter,
          default_candidate, exit_code, prompts, removed, tool_runs, last_msg,
          last_entry, last_default, last_counter, last_base, source_deleted,
          base_dir, items_to_archive, working_dir_for_cmd, thread_count, verify,
          compression_level, password, exclude_patterns, include_patterns, executed,
          probed, reported, confirmed_delete>>

diskVars     == <<files, dirs, content, start>>
optionVars   == <<mode, source_paths, force_format>>
resultVars   == <<op, source_type, target_type>>
resolverVars == <<original_target, rename_base, suffix_counter, default_candidate>>
ghostVars    == <<last_entry, last_default, last_counter, last_base>>
layoutVars   == <<base_dir, items_to_archive, working_dir_for_cmd>>
tuningVars   == <<thread_count, verify, compression_level, password, exclude_patterns,
                  include_patterns>>
commandVars  == <<executed, probed, reported, confirmed_delete>>

(***************************************************************************)
(* The filesystem as the program sees it                                   *)
(***************************************************************************)
RECURSIVE Canon(_)
\* the entity a path names: "./x" and "x/" name what "x" names
Canon(p) ==
    IF Len(p) > 2 /\ StartsWith(p, "./") THEN Canon(SubstrFrom(p, 3))
    ELSE IF Len(p) > 1 /\ EndsWith(p, "/") THEN Canon(SubSeq(p, 1, Len(p) - 1))
    ELSE p

\* fs::is_directory; "." is the working directory
IsDirectory(p) == Canon(p) \in dirs \cup {"."}
\* fs::is_regular_file ("x/" does not name a regular file)
IsRegularFile(p) == Canon(p) \in files /\ ~EndsWith(p, "/")
\* fs::exists
Exists(p) == IsDirectory(p) \/ IsRegularFile(p)
\* fs::equivalent without an error: both exist and are the same entity
Equivalent(a, b) == Exists(a) /\ Exists(b) /\ Canon(a) = Canon(b)

(***************************************************************************)
(* Bounds and input pools                                                  *)
(***************************************************************************)
\* the resolver asks at most this many times in one run of the model
MaxPrompts == 4

\* what the user may type at the rename prompt ("" and " " accept the default)
RenameInputs == {"", " ", "out.zip", "./out.zip", " new.zip"}

(***************************************************************************)
(* target_path::resolve_existing_target                                    *)
(*                                                                         *)
(* pc = "Checking" is the test of the outer while loop, "AwaitingAction"   *)
(* the call of target_conflict::prompt_action, "AwaitingRenameInput" the   *)
(* call of target_conflict::prompt_new_path; "Resolved" and "Cancelled"    *)
(* are the two returns.                                                    *)
(***************************************************************************)
\* the call: lines 294-296
EnterResolver(target) ==
    /\ target_path' = target
    /\ original_target' = target
    /\ rename_base' = target
    /\ suffix_counter' = 1
    /\ default_candidate' = ""
    /\ pc' = "Checking"

\* line 298: while (fs::exists(target_path)), then the prompt of line 312
Checking ==
    /\ pc = "Checking"
    /\ IF Exists(target_path)
         THEN /\ prompts < MaxPrompts
              /\ prompts' = prompts + 1
              /\ pc' = "AwaitingAction"
         ELSE /\ pc' = "Resolved"
              /\ UNCHANGED prompts
    /\ UNCHANGED <<diskVars, optionVars, resultVars, resolverVars, ghostVars, target_path,
                   exit_code, removed, tool_runs, last_msg, source_deleted>>
    /\ UNCHANGED layoutVars
    /\ UNCHANGED <<tuningVars, commandVars>>

\* a mutation: the directory test of line 322 is dropped
OverwriteOutcome_NoDirTest(is_dir, remove_ok) ==
    IF remove_ok
      THEN [removes |-> TRUE, msg |-> "", next |-> "Resolved"]
      ELSE [removes |-> FALSE, msg |-> "target_exists_remove_failed", next |-> "Checking"]

\* a mutation: a failed removal is not noticed (the test of line 329 is dropped)
OverwriteOutcome_IgnoreError(is_dir, remove_ok) ==
    IF is_dir
      THEN [removes |-> FALSE, msg |-> "target_exists_keep_directory", next |-> "Resolved"]
      ELSE [removes |-> remove_ok, msg |-> "", next |-> "Resolved"]

\* a mutation: a failed removal is not reported
OverwriteOutcome_NoReport(is_dir, remove_ok) ==
    IF is_dir
      THEN [removes |-> FALSE, msg |-> "target_exists_keep_directory", next |-> "Resolved"]
    ELSE IF remove_ok
      THEN [removes |-> TRUE, msg |-> "", next |-> "Resolved"]
    ELSE [removes |-> FALSE, msg |-> "", next |-> "Checking"]

\* lines 321-337: what an Overwrite decision does, given whether the target is
\* a directory and whether fs::remove succeeds
OverwriteOutcome(is_dir, remove_ok) ==
    IF is_dir
      THEN [removes |-> FALSE, msg |-> "target_exists_keep_directory", next |-> "Resolved"]
    ELSE IF remove_ok
      THEN [removes |-> TRUE, msg |-> "", next |-> "Resolved"]
    ELSE [removes |-> FALSE, msg |-> "target_exists_remove_failed", next |-> "Checking"]

\* fs::remove(target_path) removes whatever the path names
OverwriteStep(out) ==
    /\ files' = IF out.removes THEN files \ {Canon(target_path)} ELSE files
    /\ dirs' = IF out.removes THEN dirs \ {Canon(target_path)} ELSE dirs
    /\ removed' = IF out.removes THEN removed \cup {Canon(target_path)} ELSE removed
    /\ last_msg' = out.msg
    /\ pc' = out.next

ChooseOverwrite ==
    /\ pc = "AwaitingAction"
    /\ \E remove_ok \in BOOLEAN :
          OverwriteStep(OverwriteOutcome(IsDirectory(target_path), remove_ok))
    /\ UNCHANGED <<content, start, optionVars, resultVars, resolverVars, ghostVars,
                   target_path, exit_code, prompts, tool_runs, source_deleted>>
    /\ UNCHANGED layoutVars
    /\ UNCHANGED <<tuningVars, commandVars>>

\* lines 339-341
ChooseCancel ==
    /\ pc = "AwaitingAction"
    /\ pc' = "Cancelled"
    /\ UNCHANGED <<diskVars, optionVars, resultVars, resolverVars, ghostVars, target_path,
                   exit_code, prompts, removed, tool_runs, last_msg, source_deleted>>
    /\ UNCHANGED layoutVars
    /\ UNCHANGED <<tuningVars, commandVars>>

\* the Rename decision: lines 344-351 propose the default and ask for a path
ChooseRename ==
    /\ pc = "AwaitingAction"
    /\ prompts < MaxPrompts
    /\ prompts' = prompts + 1
    /\ default_candidate' = generate_sequential_candidate(rename_base, suffix_counter)
    /\ pc' = "AwaitingRenameInput"
    /\ UNCHANGED <<diskVars, optionVars, resultVars, ghostVars, target_path,
                   original_target, rename_base, suffix_counter,
                   exit_code, removed, tool_runs, last_msg, source_deleted>>
    /\ UNCHANGED layoutVars
    /\ UNCHANGED <<tuningVars, commandVars>>

\* lines 352-356: the entry is trimmed, and an empty entry is the default
OrDefault(candidate, dflt) == IF candidate = "" THEN dflt ELSE candidate

EnteredCandidate(input, dflt) == OrDefault(trim_copy(input), dflt)

\* a mutation: a rejected default is proposed again with the same counter
RenameOutcome_NoIncrement(candidate, dflt, target, base, counter) ==
    IF candidate = target
      THEN [accepted |-> FALSE, msg |-> "target_exists_same", base |-> base,
            counter  |-> counter]
    ELSE IF Exists(candidate)
      THEN [accepted |-> FALSE, msg |-> "target_exists_rename_conflict",
            base    |-> IF candidate = dflt THEN base ELSE candidate,
            counter |-> IF candidate = dflt THEN counter ELSE 1]
    ELSE [accepted |-> TRUE, msg |-> "",
          base    |-> IF candidate = dflt THEN base ELSE candidate,
          counter |-> IF candidate = dflt THEN counter + 1 ELSE 1]

\* a mutation: a custom path that exists does not become the rename base
RenameOutcome_KeepBase(candidate, dflt, target, base, counter) ==
    IF candidate = target
      THEN [accepted |-> FALSE, msg |-> "target_exists_same", base |-> base,
            counter  |-> IF candidate = dflt THEN counter + 1 ELSE counter]
    ELSE IF Exists(candidate)
      THEN [accepted |-> FALSE, msg |-> "target_exists_rename_conflict",
            base |-> base, counter |-> counter + 1]
    ELSE [accepted |-> TRUE, msg |-> "",
          base    |-> IF candidate = dflt THEN base ELSE candidate,
          counter |-> IF candidate = dflt THEN counter + 1 ELSE 1]

\* a mutation: the existence test of line 366 is dropped
RenameOutcome_NoExistsTest(candidate, dflt, target, base, counter) ==
    IF candidate = target
      THEN [accepted |-> FALSE, msg |-> "target_exists_same", base |-> base,
            counter  |-> IF candidate = dflt THEN counter + 1 ELSE counter]
    ELSE [accepted |-> TRUE, msg |-> "",
          base    |-> IF candidate = dflt THEN base ELSE candidate,
          counter |-> IF candidate = dflt THEN counter + 1 ELSE 1]

\* lines 358-386: the verdict on an entered path and the new base and counter
RenameOutcome(candidate, dflt, target, base, counter) ==
    IF candidate = target
      THEN [accepted |-> FALSE, msg |-> "target_exists_same", base |-> base,
            counter  |-> IF candidate = dflt THEN counter + 1 ELSE counter]
    ELSE IF Exists(candidate)
      THEN [accepted |-> FALSE, msg |-> "target_exists_rename_conflict",
            base    |-> IF candidate = dflt THEN base ELSE candidate,
            counter |-> IF candidate = dflt THEN counter + 1 ELSE 1]
    ELSE [accepted |-> TRUE, msg |-> "",
          base    |-> IF candidate = dflt THEN base ELSE candidate,
          counter |-> IF candidate = dflt THEN counter + 1 ELSE 1]

RenameStep(candidate, out) ==
    /\ rename_base' = out.base
    /\ suffix_counter' = out.counter
    /\ last_msg' = out.msg
    /\ last_entry' = candidate
    /\ last_default' = default_candidate
    /\ last_counter' = suffix_counter
    /\ last_base' = rename_base
    /\ IF out.accepted
         THEN /\ target_path' = candidate
              /\ pc' = "Checking"
              /\ UNCHANGED <<prompts, default_candidate>>
         ELSE /\ prompts < MaxPrompts
              /\ prompts' = prompts + 1
              /\ default_candidate' = generate_sequential_candidate(out.base, out.counter)
              /\ pc' = "AwaitingRenameInput"
              /\ UNCHANGED target_path

RenameEntry(candidate) ==
    RenameStep(candidate, RenameOutcome(candidate, default_candidate, target_path,
                                        rename_base, suffix_counter))

\* prompt_new_path returns; an accepted path goes back to the loop test, a
\* rejected one to the next proposal and prompt (lines 344-351 again)
RenameInput ==
    /\ pc = "AwaitingRenameInput"
    /\ \E input \in RenameInputs :
          RenameEntry(EnteredCandidate(input, default_candidate))
    /\ UNCHANGED <<diskVars, optionVars, resultVars, original_target,
                   exit_code, removed, tool_runs, source_deleted>>
    /\ UNCHANGED layoutVars
    /\ UNCHANGED <<tuningVars, commandVars>>

\* cli_io::get_input / interactive::get_input: std::getline fails, the
\* std::runtime_error reaches main's handler (lines 1939-1942)
\* a mutation: the handler of std::exception reports success
StdExceptionCode_Success == "SUCCESS"

\* main's handler of std::exception: the std::runtime_error of get_input()
\* on a closed stream ends the command with UNKNOWN_ERROR
StdExceptionCode == "UNKNOWN_ERROR"

InputClosed ==
    /\ pc \in {"AwaitingAction", "AwaitingRenameInput"}
    /\ pc' = "exited"
    /\ exit_code' = ErrorCodeValue(StdExceptionCode)
    /\ UNCHANGED <<diskVars, optionVars, resultVars, resolverVars, ghostVars, target_path,
                   prompts, removed, tool_runs, last_msg, source_deleted>>
    /\ UNCHANGED layoutVars
    /\ UNCHANGED <<tuningVars, commandVars>>

(***************************************************************************)
(* file_type::recognize_source_type and file_type::recognize               *)
(***************************************************************************)
JunkContent == [len |-> 20, sig |-> <<>>, fill |-> 0, ustar |-> FALSE, readable |-> TRUE]

ContentOf(p) == IF Canon(p) \in DOMAIN content THEN content[Canon(p)] ELSE JunkContent

\* [err, type]: INVALID_SOURCE for a missing path, DIRECTORY for a directory,
\* the sniffed or extension type (or REGULAR_FILE) for a regular file
recognize_source_type(source_path_str) ==
    IF ~Exists(source_path_str) THEN [err |-> "INVALID_SOURCE", type |-> "UNKNOWN"]
    ELSE IF IsDirectory(source_path_str) THEN [err |-> "SUCCESS", type |-> "DIRECTORY"]
    ELSE [err |-> "SUCCESS",
          type |-> RegularFileType(source_path_str, ContentOf(source_path_str))]

\* a mutation: a plain file is taken for something to extract
OperationOf_OnlyDirectories(type) ==
    IF type = "DIRECTORY" THEN "COMPRESS" ELSE "DECOMPRESS"

OperationOf(type) ==
    IF type = "DIRECTORY" \/ type = "REGULAR_FILE" THEN "COMPRESS" ELSE "DECOMPRESS"

\* a mutation: the target of a decompression is not examined
Infer_NoTargetTest(src, hint, target_path_str) ==
    IF src.err # "SUCCESS"
      THEN [err |-> src.err, source_type |-> "UNKNOWN", target_type_hint |-> "UNKNOWN",
            operation |-> "UNKNOWN"]
    ELSE IF OperationOf(src.type) = "COMPRESS"
      THEN [err |-> "SUCCESS", source_type |-> src.type,
            target_type_hint |-> IF hint \in {"UNKNOWN", "REGULAR_FILE", "DIRECTORY"}
                                   THEN "UNKNOWN" ELSE hint,
            operation |-> "COMPRESS"]
    ELSE [err |-> "SUCCESS", source_type |-> src.type, target_type_hint |-> hint,
          operation |-> "DECOMPRESS"]

\* lines 825-843, given the source's type and the target's extension type
Infer(src, hint, target_path_str) ==
    IF src.err # "SUCCESS"
      THEN [err |-> src.err, source_type |-> "UNKNOWN", target_type_hint |-> "UNKNOWN",
            operation |-> "UNKNOWN"]
    ELSE IF OperationOf(src.type) = "COMPRESS"
      THEN [err |-> "SUCCESS", source_type |-> src.type,
            target_type_hint |-> IF hint \in {"UNKNOWN", "REGULAR_FILE", "DIRECTORY"}
                                   THEN "UNKNOWN" ELSE hint,
            operation |-> "COMPRESS"]
    ELSE [err |-> IF Exists(target_path_str) /\ ~IsDirectory(target_path_str)
                    THEN "INVALID_TARGET" ELSE "SUCCESS",
          source_type |-> src.type, target_type_hint |-> hint,
          operation |-> "DECOMPRESS"]

recognize(source_path_str, target_path_str) ==
    Infer(recognize_source_type(source_path_str),
          IF target_path_str # "" THEN recognize_by_extension(target_path_str) ELSE "UNKNOWN",
          target_path_str)

(***************************************************************************)
(* operation::compress and operation::decompress, up to the exit status    *)
(***************************************************************************)
(***************************************************************************)
(* The layout of an archive: operation::compress, lines 1249-1360.  A      *)
(* canonical path is the sequence of its names below the root; the disk    *)
(* has no symbolic links.                                                  *)
(***************************************************************************)
\* fs::current_path(), where the names of files and dirs are looked up
current_path == <<"x">>

\* the names of a written path, between its separators
RECURSIVE PathParts(_, _)
PathParts(s, cur) ==
    IF s = "" THEN (IF cur = "" THEN <<>> ELSE <<cur>>)
    ELSE IF Char(s, 1) = "/"
      THEN (IF cur = "" THEN <<>> ELSE <<cur>>) \o PathParts(SubstrFrom(s, 2), "")
    ELSE PathParts(SubstrFrom(s, 2), cur \o Char(s, 1))

\* fs::path::parent_path of a canonical path; the root is its own parent
ParentOf(c) == IF c = <<>> THEN <<>> ELSE SubSeq(c, 1, Len(c) - 1)

\* the directory reached from the directory at by the names parts
RECURSIVE Walk(_, _)
Walk(at, parts) ==
    IF parts = <<>> THEN at
    ELSE Walk(CASE Head(parts) = "."  -> at
                [] Head(parts) = ".." -> ParentOf(at)
                [] OTHER -> Append(at, Head(parts)),
              Tail(parts))

\* fs::weakly_canonical of a written path
weakly_canonical(p) ==
    Walk(IF StartsWith(p, "/") THEN <<>> ELSE current_path, PathParts(p, ""))

\* fs::path::string of a canonical path
RECURSIVE JoinParts(_)
JoinParts(parts) ==
    IF parts = <<>> THEN ""
    ELSE IF Len(parts) = 1 THEN parts[1]
    ELSE parts[1] \o "/" \o JoinParts(Tail(parts))

PathString(c) == "/" \o JoinParts(c)

\* the directories and the regular files of the disk, as canonical paths;
\* what lies above a directory or a file is a directory
Ancestors(c) == {SubSeq(c, 1, n) : n \in 0..(Len(c) - 1)}
TreeFiles == {weakly_canonical(f) : f \in files}
TreeDirs ==
    LET named == {weakly_canonical(d) : d \in dirs}
    IN  {current_path} \cup named \cup UNION {Ancestors(c) : c \in named \cup TreeFiles \cup {current_path}}

\* fs::exists of a written path, fs::is_directory of a canonical one
PathExists(p) ==
    \/ weakly_canonical(p) \in TreeDirs
    \/ weakly_canonical(p) \in TreeFiles /\ ~EndsWith(p, "/")
is_directory(c) == c \in TreeDirs

\* how many leading names two canonical paths share
RECURSIVE CommonLen(_, _)
CommonLen(a, b) ==
    IF a = <<>> \/ b = <<>> \/ Head(a) # Head(b) THEN 0
    ELSE 1 + CommonLen(Tail(a), Tail(b))

\* fs::relative(target, base) of two canonical paths, as its names
RelativeFrom(n, target, base) ==
    IF n = Len(target) /\ n = Len(base) THEN <<".">>
    ELSE [i \in 1..(Len(base) - n) |-> ".."] \o SubSeq(target, n + 1, Len(target))
relative(target, base) == RelativeFrom(CommonLen(target, base), target, base)

\* a mutation: a path is not taken for a descendant of itself
is_descendant_or_same_Strict(base, target) ==
    /\ Len(target) > Len(base)
    /\ \A i \in 1..Len(relative(target, base)) : relative(target, base)[i] # ".."

\* lines 1249-1260
is_descendant_or_same(base, target) ==
    \A i \in 1..Len(relative(target, base)) : relative(target, base)[i] # ".."

\* a mutation: the parent of the first source is taken without looking at
\* the other sources
CommonBaseFrom_FirstOnly(base, paths) == base

\* lines 1269-1274: the loop of determine_common_base
RECURSIVE CommonBaseFrom(_, _)
CommonBaseFrom(base, paths) ==
    IF \A k \in 1..Len(paths) : is_descendant_or_same(base, paths[k]) THEN base
    ELSE CommonBaseFrom(ParentOf(base), paths)

\* lines 1262-1280
determine_common_base(paths) ==
    IF paths = <<>> THEN current_path
    ELSE CommonBaseFrom(ParentOf(paths[1]), paths)

\* lines 1343-1351: the item of one source, given its path relative to the base
ItemOf(rel, canonical) ==
    IF rel = <<".">>
      THEN (IF canonical = <<>> THEN "/" ELSE canonical[Len(canonical)])
      ELSE JoinParts(rel)

\* lines 1339-1352
ItemsUnder(base, canonical_sources) ==
    [base_dir |-> base,
     items    |-> [k \in 1..Len(canonical_sources) |->
                      ItemOf(relative(canonical_sources[k], base), canonical_sources[k])]]

\* a mutation: how the one source was written is not asked
single_contents_mode_AnyDirectory(sources, canonical_sources) ==
    Len(sources) = 1 /\ is_directory(canonical_sources[1])

\* line 1319
single_contents_mode(sources, canonical_sources) ==
    /\ Len(sources) = 1
    /\ sources[1].include_contents
    /\ is_directory(canonical_sources[1])

\* lines 1335-1353
LayoutOf(contents_mode, canonical_sources) ==
    IF contents_mode
      THEN [base_dir |-> canonical_sources[1], items |-> <<".">>]
      ELSE ItemsUnder(determine_common_base(canonical_sources), canonical_sources)

CanonicalSources(sources) == [k \in 1..Len(sources) |-> weakly_canonical(sources[k].path)]

\* lines 1307-1353: the layout of existing sources
PlanLayout(sources) ==
    LayoutOf(single_contents_mode(sources, CanonicalSources(sources)), CanonicalSources(sources))

\* line 1479
has_trailing_slash(source_path_str) ==
    /\ source_path_str # ""
    /\ Char(source_path_str, Len(source_path_str)) \in {"/", "\\"}

\* the CompressionSource list of the callers of compress: one source goes
\* through the overload of lines 1476-1482, several through lines 1880-1884
CompressionSources(paths) ==
    IF Len(paths) = 1
      THEN <<[path |-> paths[1], include_contents |-> has_trailing_slash(paths[1])]>>
      ELSE [k \in 1..Len(paths) |-> [path |-> paths[k], include_contents |-> FALSE]]

\* lines 1319-1360 written to the state
LayoutStep(layout) ==
    /\ base_dir' = layout.base_dir
    /\ items_to_archive' = layout.items
    /\ working_dir_for_cmd' = PathString(layout.base_dir)


(***************************************************************************)
(* file_filter, lines 883-917                                              *)
(***************************************************************************)
\* lines 883-891 for a pattern made of letters and digits only: as a regular
\* expression such a pattern matches exactly the string it spells
matches_pattern(name, pattern) == name = pattern

\* lines 893-917
should_include_file(filepath, includes, excludes) ==
    IF \E i \in 1..Len(excludes) :
          matches_pattern(filename(filepath), excludes[i]) \/ matches_pattern(filepath, excludes[i])
      THEN FALSE
    ELSE IF includes # <<>>
      THEN \E i \in 1..Len(includes) :
              matches_pattern(filename(filepath), includes[i]) \/ matches_pattern(filepath, includes[i])
    ELSE TRUE

(***************************************************************************)
(* The external commands: lines 1041-1098, 1217-1246, 1362-1444, 1496-1590 *)
(***************************************************************************)
\* fs::absolute(p).string(): the working directory is put in front, nothing
\* is normalised
Absolute(p) == IF StartsWith(p, "/") THEN p ELSE PathString(current_path) \o "/" \o p

\* fs::path::replace_extension
replace_extension(p, new_ext) == SubSeq(p, 1, Len(p) - Len(extension(p))) \o new_ext

\* lines 1041-1049
is_split_zip_part(path) ==
    /\ extension(path) # ""
    /\ is_split_zip_extension(ToLower(extension(path)))

\* lines 1054-1063; "" when the main file is not found
find_split_zip_main(any_part_path) ==
    IF Exists(replace_extension(any_part_path, ".zip"))
      THEN replace_extension(any_part_path, ".zip") ELSE ""

\* lines 1067-1085
is_split_zip(zip_path) ==
    IF extension(zip_path) = "" THEN FALSE
    ELSE IF is_split_zip_part(zip_path) THEN TRUE
    ELSE IF ToLower(extension(zip_path)) # ".zip" THEN FALSE
    ELSE Exists(replace_extension(zip_path, ".z01"))

\* the words a password or a compression level adds to an argument vector
PasswordWords(flag, pw, attached) ==
    IF pw = "" THEN <<>> ELSE IF attached THEN <<flag \o pw>> ELSE <<flag, pw>>
LevelWords(flag, level) == IF level > 0 THEN <<flag \o ToString(level)>> ELSE <<>>

\* lines 1088-1098
build_7z_extract_args(source_path, target_dir_path, pw) ==
    <<"x">> \o PasswordWords("-p", pw, TRUE)
            \o <<Absolute(source_path), "-o" \o Absolute(target_dir_path), "-y">>

TarFamily == {"ARCHIVE_TAR", "ARCHIVE_TAR_GZ", "ARCHIVE_TAR_BZ2", "ARCHIVE_TAR_XZ"}

TarFlags(letter, format) ==
    CASE format = "ARCHIVE_TAR"     -> "-" \o letter \o "f"
      [] format = "ARCHIVE_TAR_GZ"  -> "-" \o letter \o "zf"
      [] format = "ARCHIVE_TAR_BZ2" -> "-" \o letter \o "jf"
      [] format = "ARCHIVE_TAR_XZ"  -> "-" \o letter \o "Jf"

\* lines 1362-1438: the argument vector of the compressing tool
CompressArgs(format, target_path_str, items, pw, level) ==
    CASE format \in TarFamily   -> <<TarFlags("c", format), Absolute(target_path_str)>> \o items
      [] format = "ARCHIVE_ZIP" -> PasswordWords("-P", pw, FALSE) \o LevelWords("-", level)
                                     \o <<"-r", Absolute(target_path_str)>> \o items
      [] format = "ARCHIVE_7Z"  -> <<"a">> \o PasswordWords("-p", pw, TRUE)
                                     \o LevelWords("-mx=", level)
                                     \o <<Absolute(target_path_str)>> \o items
      [] format = "ARCHIVE_LZ4" -> LevelWords("-", level)
                                     \o <<"-r", items[1], Absolute(target_path_str)>>
      [] format = "ARCHIVE_ZSTD" -> LevelWords("-", level)
                                     \o <<"-r", items[1], "-o", Absolute(target_path_str)>>
      [] format = "ARCHIVE_XAR" -> <<"-cf", Absolute(target_path_str)>> \o items
      [] OTHER -> <<>>

\* lines 1217-1240: the tool and the argument vector of the test command;
\* "" for a format verify_archive skips
VerifyTool(format) ==
    CASE format \in TarFamily   -> "tar"
      [] format = "ARCHIVE_ZIP" -> "unzip"
      [] format = "ARCHIVE_7Z"  -> "7z"
      [] OTHER -> ""
VerifyArgs(format, archive_path) ==
    CASE format \in TarFamily   -> <<"-tf", archive_path>>
      [] format = "ARCHIVE_ZIP" -> <<"-t", archive_path>>
      [] format = "ARCHIVE_7Z"  -> <<"t", archive_path>>
      [] OTHER -> <<>>

\* lines 1217-1246: [ran, ok], whether the test command was run and what
\* verify_archive returns
verify_archive(format, tool_available, status) ==
    IF VerifyTool(format) = "" THEN [ran |-> FALSE, ok |-> TRUE, status |-> 0]
    ELSE IF ~tool_available THEN [ran |-> FALSE, ok |-> FALSE, status |-> 0]
    ELSE [ran |-> TRUE, ok |-> status = 0, status |-> status]

CompressTool(format) ==
    CASE format \in {"ARCHIVE_TAR", "ARCHIVE_TAR_GZ", "ARCHIVE_TAR_BZ2", "ARCHIVE_TAR_XZ"} -> "tar"
      [] format = "ARCHIVE_ZIP"  -> "zip"
      [] format = "ARCHIVE_7Z"   -> "7z"
      [] format = "ARCHIVE_LZ4"  -> "lz4"
      [] format = "ARCHIVE_ZSTD" -> "zstd"
      [] format = "ARCHIVE_XAR"  -> "xar"
      [] OTHER -> ""

\* a mutation: the archiver is started whatever is_tool_available answers
CompressOutcome_NoToolCheck(sources, format, tool_available, status) ==
    IF \E k \in 1..Len(sources) : ~Exists(sources[k])
      THEN [err |-> "INVALID_SOURCE", started |-> FALSE]
    ELSE IF CompressTool(format) = ""
      THEN [err |-> "UNKNOWN_FORMAT", started |-> FALSE]
    ELSE IF format \in {"ARCHIVE_LZ4", "ARCHIVE_ZSTD"} /\ Len(sources) # 1
      THEN [err |-> "UNKNOWN_FORMAT", started |-> FALSE]
    ELSE IF status # 0
      THEN [err |-> "OPERATION_FAILED", started |-> TRUE]
    ELSE [err |-> "SUCCESS", started |-> TRUE]

\* [err, started]: how compress ends and whether the archiver was started,
\* given the answer of is_tool_available and the archiver's exit status
CompressOutcome(sources, format, tool_available, status) ==
    IF \E k \in 1..Len(sources) : ~Exists(sources[k])
      THEN [err |-> "INVALID_SOURCE", started |-> FALSE]
    ELSE IF CompressTool(format) = ""
      THEN [err |-> "UNKNOWN_FORMAT", started |-> FALSE]
    ELSE IF ~tool_available
      THEN [err |-> "TOOL_NOT_FOUND", started |-> FALSE]
    ELSE IF format \in {"ARCHIVE_LZ4", "ARCHIVE_ZSTD"} /\ Len(sources) # 1
      THEN [err |-> "UNKNOWN_FORMAT", started |-> FALSE]
    ELSE IF status # 0
      THEN [err |-> "OPERATION_FAILED", started |-> TRUE]
    ELSE [err |-> "SUCCESS", started |-> TRUE]

DecompressTool(type) ==
    CASE type \in {"ARCHIVE_TAR", "ARCHIVE_TAR_GZ", "ARCHIVE_TAR_BZ2", "ARCHIVE_TAR_XZ"} -> "tar"
      [] type = "ARCHIVE_ZIP"  -> "unzip"
      [] type = "ARCHIVE_RAR"  -> "unrar"
      [] type = "ARCHIVE_7Z"   -> "7z"
      [] type = "ARCHIVE_LZ4"  -> "lz4"
      [] type = "ARCHIVE_ZSTD" -> "zstd"
      [] type = "ARCHIVE_XAR"  -> "xar"
      [] OTHER -> ""

\* lines 1512-1545: a split ZIP archive is extracted with 7z
DecompressToolFor(source_path, type) ==
    IF type = "ARCHIVE_ZIP" /\ is_split_zip(source_path) THEN "7z" ELSE DecompressTool(type)

\* a mutation: 7z is given the part the user named
actual_source_AsGiven(source_path) == source_path

\* lines 1523-1533: the archive named to 7z for a split ZIP source
actual_source(source_path) ==
    IF is_split_zip_part(source_path) THEN find_split_zip_main(source_path) ELSE source_path

\* lines 1496-1580: the argument vector of the extracting tool
DecompressArgs(source_path, target_dir_path, type, pw) ==
    CASE type \in TarFamily ->
             <<TarFlags("x", type), Absolute(source_path), "-C", Absolute(target_dir_path)>>
      [] type = "ARCHIVE_ZIP" /\ is_split_zip(source_path) ->
             build_7z_extract_args(actual_source(source_path), target_dir_path, pw)
      [] type = "ARCHIVE_ZIP" /\ ~is_split_zip(source_path) ->
             PasswordWords("-P", pw, FALSE)
                \o <<"-o", Absolute(source_path), "-d", Absolute(target_dir_path)>>
      [] type = "ARCHIVE_RAR" ->
             <<"x">> \o PasswordWords("-p", pw, TRUE)
                \o <<"-o+", Absolute(source_path), Absolute(target_dir_path)>>
      [] type = "ARCHIVE_7Z" -> build_7z_extract_args(source_path, target_dir_path, pw)
      [] type = "ARCHIVE_LZ4" -> <<"-d", Absolute(source_path), Absolute(target_dir_path)>>
      [] type = "ARCHIVE_ZSTD" ->
             <<"-d", Absolute(source_path), "-o", Absolute(target_dir_path)>>
      [] type = "ARCHIVE_XAR" ->
             <<"-xf", Absolute(source_path), "-C", Absolute(target_dir_path)>>
      [] OTHER -> <<>>

\* [err, started, created]: created tells whether the target directory was made
ExtractOutcome(source_path, type, created, tool_available, status) ==
    IF DecompressTool(type) = ""
      THEN [err |-> "UNKNOWN_FORMAT", started |-> FALSE, created |-> created]
    ELSE IF ~tool_available
      THEN [err |-> "TOOL_NOT_FOUND", started |-> FALSE, created |-> created]
    ELSE IF type = "ARCHIVE_ZIP" /\ is_split_zip(source_path) /\ actual_source(source_path) = ""
      THEN [err |-> "INVALID_SOURCE", started |-> FALSE, created |-> created]
    ELSE IF status # 0
      THEN [err |-> "OPERATION_FAILED", started |-> TRUE, created |-> created]
    ELSE [err |-> "SUCCESS", started |-> TRUE, created |-> created]

DecompressOutcome(source_path, target_dir, type, mkdir_ok, tool_available, status) ==
    IF ~Exists(target_dir) /\ ~mkdir_ok
      THEN [err |-> "INVALID_TARGET", started |-> FALSE, created |-> FALSE]
      ELSE ExtractOutcome(source_path, type, ~Exists(target_dir), tool_available, status)

(***************************************************************************)
(* main() and interactive::run()                                           *)
(***************************************************************************)
Exit(code) ==
    /\ pc' = "exited"
    /\ exit_code' = ErrorCodeValue(code)

\* a mutation: a compression without format goes on (the check of line 1915
\* is dropped)
ForceAndCheck_NoFormatCheck(rec, ff, forced) ==
    IF rec.err # "SUCCESS" THEN rec
    ELSE IF ff # "" /\ forced = "UNKNOWN" THEN [rec EXCEPT !.err = "UNKNOWN_FORMAT"]
    ELSE IF ff # "" /\ rec.operation = "COMPRESS"
      THEN [rec EXCEPT !.target_type_hint = forced]
    ELSE IF ff # "" THEN [rec EXCEPT !.source_type = forced]
    ELSE rec

\* a mutation: the forced format always replaces the target's format
ForceAndCheck_AlwaysTarget(rec, ff, forced) ==
    IF rec.err # "SUCCESS" THEN rec
    ELSE IF ff # "" /\ forced = "UNKNOWN" THEN [rec EXCEPT !.err = "UNKNOWN_FORMAT"]
    ELSE IF ff # "" THEN [rec EXCEPT !.target_type_hint = forced]
    ELSE IF rec.operation = "COMPRESS" /\ rec.target_type_hint = "UNKNOWN"
      THEN [rec EXCEPT !.err = "UNKNOWN_FORMAT"]
    ELSE rec

\* lines 1898-1918: the --format override and the check that a compression
\* has a format, on the result of recognize
ForceAndCheck(rec, ff, forced) ==
    IF rec.err # "SUCCESS" THEN rec
    ELSE IF ff # "" /\ forced = "UNKNOWN" THEN [rec EXCEPT !.err = "UNKNOWN_FORMAT"]
    ELSE IF ff # "" /\ rec.operation = "COMPRESS"
      THEN [rec EXCEPT !.target_type_hint = forced]
    ELSE IF ff # "" THEN [rec EXCEPT !.source_type = forced]
    ELSE IF rec.operation = "COMPRESS" /\ rec.target_type_hint = "UNKNOWN"
      THEN [rec EXCEPT !.err = "UNKNOWN_FORMAT"]
    ELSE rec

\* lines 1888-1918: what main decides for one source before the resolver
MainSingleOutcome(source, target, ff) ==
    IF Exists(source) /\ Exists(target) /\ Equivalent(source, target)
      THEN [err |-> "SAME_PATH", source_type |-> "UNKNOWN", target_type_hint |-> "UNKNOWN",
            operation |-> "UNKNOWN"]
      ELSE ForceAndCheck(recognize(source, target), ff, parse_format_string(ff))

\* the rest of main after the checks: the error exit, or the resolver's call
MainSingleStep(out) ==
    IF out.err # "SUCCESS"
      THEN /\ Exit(out.err)
           /\ UNCHANGED <<resultVars, resolverVars, target_path>>
      ELSE /\ op' = out.operation
           /\ source_type' = out.source_type
           /\ target_type' = out.target_type_hint
           /\ EnterResolver(target_path)
           /\ UNCHANGED exit_code

MainSingle ==
    /\ pc = "main"
    /\ mode = "single"
    /\ MainSingleStep(MainSingleOutcome(source_paths[1], target_path, force_format))
    /\ UNCHANGED <<diskVars, optionVars, ghostVars, prompts, removed, tool_runs,
                   last_msg, source_deleted>>
    /\ UNCHANGED layoutVars
    /\ UNCHANGED <<tuningVars, commandVars>>

\* lines 1848-1872: what main decides for several sources before the resolver
MultiTargetType(ff, forced, by_extension) ==
    IF ff # "" /\ forced = "UNKNOWN" THEN [err |-> "UNKNOWN_FORMAT", target_type |-> "UNKNOWN"]
    ELSE IF ff # "" THEN [err |-> "SUCCESS", target_type |-> forced]
    ELSE IF by_extension = "UNKNOWN" THEN [err |-> "UNKNOWN_FORMAT", target_type |-> "UNKNOWN"]
    ELSE [err |-> "SUCCESS", target_type |-> by_extension]

MainMultiOutcome(sources, target, ff) ==
    IF /\ Exists(target)
       /\ \E k \in 1..Len(sources) : Exists(sources[k]) /\ Equivalent(sources[k], target)
      THEN [err |-> "SAME_PATH", target_type |-> "UNKNOWN"]
      ELSE MultiTargetType(ff, parse_format_string(ff), recognize_by_extension(target))

\* the rest of main after the checks: the error exit, or the resolver's call
MainMultiStep(out) ==
    IF out.err # "SUCCESS"
      THEN /\ Exit(out.err)
           /\ UNCHANGED <<resultVars, resolverVars, target_path>>
      ELSE /\ op' = "COMPRESS"
           /\ target_type' = out.target_type
           /\ EnterResolver(target_path)
           /\ UNCHANGED <<exit_code, source_type>>

MainMulti ==
    /\ pc = "main"
    /\ mode = "multi"
    /\ MainMultiStep(MainMultiOutcome(source_paths, target_path, force_format))
    /\ UNCHANGED <<diskVars, optionVars, ghostVars, prompts, removed, tool_runs,
                   last_msg, source_deleted>>
    /\ UNCHANGED layoutVars
    /\ UNCHANGED <<tuningVars, commandVars>>

\* the sources, targets and formats the user may enter in interactive mode
SourcePool == {"a.zip", "notes", "docs", "docs/", "missing"}
TargetPool == {"out.zip", "docs", "a.zip", "./a.zip", "newdir", "."}
MenuFormats == <<"ARCHIVE_TAR_GZ", "ARCHIVE_ZIP", "ARCHIVE_7Z", "ARCHIVE_TAR",
                 "ARCHIVE_TAR_BZ2", "ARCHIVE_TAR_XZ", "ARCHIVE_LZ4", "ARCHIVE_ZSTD",
                 "ARCHIVE_XAR">>

\* the menu entries the user picks among in the model: zip and lz4
FormatChoices == {2, 7}

\* lines 1721-1792: the dialogue of interactive::run before the resolver, for the
\* answers given: the source, whether to change the operation and to which menu
\* entry, the format's menu entry and the target
Dialogue(src, op_type, fmt_choice, target_input) ==
    [err |-> IF src.err # "SUCCESS" THEN src.err
             ELSE IF op_type = "COMPRESS" /\ target_input = "" THEN "INVALID_TARGET"
             ELSE "SUCCESS",
     operation |-> op_type,
     source_type |-> src.type,
     target_format |-> IF op_type = "COMPRESS" THEN MenuFormats[fmt_choice] ELSE "UNKNOWN",
     target |-> IF op_type # "COMPRESS" /\ target_input = "" THEN "." ELSE target_input]

ChosenOperation(src, change, op_choice) ==
    IF change THEN (IF op_choice = 1 THEN "COMPRESS" ELSE "DECOMPRESS")
    ELSE OperationOf(src.type)

SourceDialogue(src, change, op_choice, fmt_choice, target_input) ==
    Dialogue(src, ChosenOperation(src, change, op_choice), fmt_choice, target_input)

InteractiveOutcome(source, change, op_choice, fmt_choice, target_input) ==
    SourceDialogue(recognize_source_type(source), change, op_choice, fmt_choice,
                   target_input)

\* the rest of the dialogue: the error exit, or the resolver's call
InteractiveStep(out) ==
    IF out.err # "SUCCESS"
      THEN /\ Exit(out.err)
           /\ UNCHANGED <<resultVars, resolverVars, target_path>>
      ELSE /\ op' = out.operation
           /\ source_type' = out.source_type
           /\ target_type' = out.target_format
           /\ EnterResolver(out.target)
           /\ UNCHANGED exit_code

InteractiveRun ==
    /\ pc = "main"
    /\ mode = "interactive"
    /\ \E source \in (IF source_paths = <<>> THEN SourcePool ELSE {source_paths[1]}),
          change \in BOOLEAN, op_choice \in 1..2, fmt_choice \in FormatChoices,
          target_input \in TargetPool \cup {""} :
          /\ source_paths' = <<source>>
          /\ InteractiveStep(InteractiveOutcome(source, change, op_choice, fmt_choice,
                                                target_input))
    /\ UNCHANGED <<diskVars, mode, force_format, ghostVars, prompts, removed, tool_runs,
                   last_msg, source_deleted>>
    /\ UNCHANGED layoutVars
    /\ UNCHANGED <<tuningVars, commandVars>>

\* the caller of a cancelled resolver: lines 1793-1794, 1875-1877, 1921-1923
CallerCancelled ==
    /\ pc = "Cancelled"
    /\ Exit("SUCCESS")
    /\ UNCHANGED <<diskVars, optionVars, resultVars, resolverVars, ghostVars, target_path,
                   prompts, removed, tool_runs, last_msg, source_deleted>>
    /\ UNCHANGED layoutVars
    /\ UNCHANGED <<tuningVars, commandVars>>

\* interactive mode asks whether to delete the source (line 1797); the command
\* line flows do not
DeleteAnswers == IF mode = "interactive" THEN BOOLEAN ELSE {FALSE}

\* fs::remove_all(source) of line 1808, when it succeeds
DiskWithout(fileset, p) == {q \in fileset : q # Canon(p) /\ ~StartsWith(q, Canon(p) \o "/")}

\* what the archive written by a successful compression adds to the disk
Written(ok) ==
    IF ok /\ ~IsDirectory(target_path) THEN files \cup {Canon(target_path)} ELSE files

\* the directory operation::decompress creates (line 1488)
Made(created) == IF created THEN dirs \cup {Canon(target_path)} ELSE dirs

\* a mutation: the source is deleted although the operation threw
DeletesSource_EvenOnFailure(err, delete) == delete

\* lines 1799-1811: the deletion is reached when the operation returned
\* normally, and done when the user asked for it and fs::remove_all succeeds
DeletesSource(err, delete) == err = "SUCCESS" /\ delete

\* lines 1805-1811 after operation::compress returned: the source is deleted
\* when the user asked for it (and fs::remove_all succeeds)
\* lines 1440-1466: the commands operation::compress runs, the archiver and
\* then the test command of --verify
CompressCommands(out, ver, status) ==
    (IF out.started
       THEN <<[tool |-> CompressTool(target_type), status |-> status,
               args |-> CompressArgs(target_type, target_path,
                                     PlanLayout(CompressionSources(source_paths)).items,
                                     password, compression_level),
               working_dir |-> PathString(PlanLayout(CompressionSources(source_paths)).base_dir)]>>
       ELSE <<>>)
    \o (IF out.err = "SUCCESS" /\ verify /\ ver.ran
          THEN <<[tool |-> VerifyTool(target_type), status |-> ver.status,
                  args |-> VerifyArgs(target_type, target_path),
                  working_dir |-> ""]>>
          ELSE <<>>)

\* the calls of is_tool_available operation::compress makes (one of lines
\* 1369-1431, and line 1241 within --verify)
CompressProbes(out, ver, tool_available) ==
    (IF out.err \in {"INVALID_SOURCE"} \/ CompressTool(target_type) = ""
       THEN <<>>
       ELSE <<[tool |-> CompressTool(target_type), found |-> tool_available]>>)
    \o (IF out.err = "SUCCESS" /\ verify /\ VerifyTool(target_type) # ""
          THEN <<[tool |-> VerifyTool(target_type), found |-> ver.ran]>>
          ELSE <<>>)

\* lines 1440-1468: the messages operation::compress prints
CompressMessages(out, ver) ==
    (IF out.started THEN <<"compressing">> ELSE <<>>)
    \o (IF out.err = "SUCCESS" /\ verify
          THEN <<"verifying", IF ver.ok THEN "verification_success" ELSE "verification_failed">>
          ELSE <<>>)
    \o (IF out.err = "SUCCESS" THEN <<"operation_complete">> ELSE <<>>)

\* the answers of the test command's tool check and the test command's exit
\* status, asked for only with --verify
VerifyAnswers == IF verify THEN BOOLEAN ELSE {FALSE}
VerifyStatuses == IF verify THEN 0..1 ELSE {0}

CompressStep(out, delete, ver, tool_available, status, confirmed) ==
    /\ confirmed_delete' = confirmed
    /\ tool_runs' = IF out.started THEN tool_runs + 1 ELSE tool_runs
    /\ files' = IF DeletesSource(out.err, delete)
                  THEN DiskWithout(Written(TRUE), source_paths[1])
                  ELSE Written(out.err = "SUCCESS")
    /\ dirs' = IF DeletesSource(out.err, delete)
                 THEN DiskWithout(dirs, source_paths[1]) ELSE dirs
    /\ source_deleted' = (DeletesSource(out.err, delete))
    /\ IF out.err = "INVALID_SOURCE"
         THEN UNCHANGED layoutVars
         ELSE LayoutStep(PlanLayout(CompressionSources(source_paths)))
    /\ executed' = executed \o CompressCommands(out, ver, status)
    /\ probed' = probed \o CompressProbes(out, ver, tool_available)
    /\ reported' = reported \o CompressMessages(out, ver)
    /\ Exit(out.err)

DecompressStep(out, delete, tool_available, status, confirmed) ==
    /\ confirmed_delete' = confirmed
    /\ tool_runs' = IF out.started THEN tool_runs + 1 ELSE tool_runs
    /\ files' = IF DeletesSource(out.err, delete)
                  THEN DiskWithout(files, source_paths[1]) ELSE files
    /\ dirs' = IF DeletesSource(out.err, delete)
                 THEN DiskWithout(Made(out.created), source_paths[1])
                 ELSE Made(out.created)
    /\ source_deleted' = (DeletesSource(out.err, delete))
    /\ executed' = executed \o
          (IF out.started
             THEN <<[tool |-> DecompressToolFor(source_paths[1], source_type),
                     status |-> status,
                     args |-> DecompressArgs(source_paths[1], target_path, source_type, password),
                     working_dir |-> ""]>>
             ELSE <<>>)
    /\ probed' = probed \o
          (IF out.err = "INVALID_TARGET" \/ DecompressTool(source_type) = ""
             THEN <<>>
             ELSE <<[tool |-> DecompressToolFor(source_paths[1], source_type),
                     found |-> tool_available]>>)
    /\ reported' = reported \o (IF out.started THEN <<"decompressing">> ELSE <<>>)
                            \o (IF out.err = "SUCCESS" THEN <<"operation_complete">> ELSE <<>>)
    /\ Exit(out.err)

\* the caller of a resolved resolver compresses: lines 1886, 1927, 1800
RunCompress ==
    /\ pc = "Resolved"
    /\ op = "COMPRESS"
    /\ \E tool_available \in BOOLEAN, status \in 0..1, delete_source \in DeleteAnswers,
          delete_ok \in BOOLEAN, verify_available \in VerifyAnswers,
          verify_status \in VerifyStatuses :
          CompressStep(CompressOutcome(source_paths, target_type, tool_available, status),
                       delete_source /\ delete_ok,
                       verify_archive(target_type, verify_available, verify_status),
                       tool_available, status, delete_source)
    /\ UNCHANGED <<content, start, optionVars, resultVars, resolverVars, ghostVars,
                   target_path, prompts, removed, last_msg>>
    /\ UNCHANGED tuningVars

\* the caller of a resolved resolver decompresses: lines 1929, 1802
RunDecompress ==
    /\ pc = "Resolved"
    /\ op = "DECOMPRESS"
    /\ \E mkdir_ok \in BOOLEAN, tool_available \in BOOLEAN, status \in 0..1,
          delete_source \in DeleteAnswers, delete_ok \in BOOLEAN :
          DecompressStep(DecompressOutcome(source_paths[1], target_path, source_type, mkdir_ok,
                                           tool_available, status),
                         delete_source /\ delete_ok, tool_available, status, delete_source)
    /\ UNCHANGED <<content, start, optionVars, resultVars, resolverVars, ghostVars,
                   target_path, prompts, removed, last_msg>>
    /\ UNCHANGED layoutVars
    /\ UNCHANGED tuningVars

\* interactive::get_input fails at the delete confirmation of line 1797
ConfirmClosed ==
    /\ pc = "Resolved"
    /\ mode = "interactive"
    /\ Exit(StdExceptionCode)
    /\ UNCHANGED <<diskVars, optionVars, resultVars, resolverVars, ghostVars, target_path,
                   prompts, removed, tool_runs, last_msg, source_deleted>>
    /\ UNCHANGED layoutVars
    /\ UNCHANGED <<tuningVars, commandVars>>

(***************************************************************************)
(* The command: initial states and next-state relation                     *)
(***************************************************************************)
ZipContent      == [len |-> 20, sig |-> <<80, 75, 3, 4>>, fill |-> 0, ustar |-> FALSE,
                    readable |-> TRUE]

\* the files that may be on disk next to the sources: the first k of these
OptionalFiles == <<"out.zip", "out_1.zip", "out_2.zip">>
MultiSources  == {<<"a.zip", "notes">>, <<"notes", "missing">>, <<"docs", "a.zip">>}
ForceFormats  == {"", "zip", "RAR", "bogus"}

\* the positional sources of a command line with -i: none, or several, of
\* which interactive::run uses options.source_path, the first
InteractiveSources == {<<>>, <<"a.zip", "notes">>}

\* before main's first statement nothing was recognised, asked, removed or run
\* the resolver has not been entered and no operation has been started
NothingRunYet ==
    /\ original_target = ""
    /\ rename_base = ""
    /\ suffix_counter = 1
    /\ default_candidate = ""
    /\ exit_code = 0
    /\ prompts = 0
    /\ removed = {}
    /\ tool_runs = 0
    /\ last_msg = ""
    /\ last_entry = ""
    /\ last_default = ""
    /\ last_counter = 0
    /\ last_base = ""
    /\ source_deleted = FALSE
    /\ base_dir = <<>>
    /\ items_to_archive = <<>>
    /\ working_dir_for_cmd = ""
    /\ executed = <<>>
    /\ probed = <<>>
    /\ reported = <<>>
    /\ confirmed_delete = FALSE

NothingDoneYet ==
    /\ op = "UNKNOWN"
    /\ source_type = "UNKNOWN"
    /\ target_type = "UNKNOWN"
    /\ NothingRunYet

\* args::Options as constructed (lines 455-472): no thread count, no
\* verification, no level, no password, no patterns
DefaultTuning ==
    /\ thread_count = 0
    /\ verify = FALSE
    /\ compression_level = 0
    /\ password = ""
    /\ exclude_patterns = <<>>
    /\ include_patterns = <<>>

Init ==
    /\ \E k \in 0..Len(OptionalFiles) :
          files = {"a.zip", "notes"} \cup {OptionalFiles[j] : j \in 1..k}
    /\ dirs = {"docs"}
    /\ content = [p \in {"a.zip", "notes"} |-> IF p = "a.zip" THEN ZipContent ELSE JunkContent]
    /\ mode \in {"single", "multi", "interactive"}
    /\ CASE mode = "single" ->
              /\ \E s \in SourcePool : source_paths = <<s>>
              /\ target_path \in TargetPool
              /\ force_format \in ForceFormats
         [] mode = "multi" ->
              /\ source_paths \in MultiSources
              /\ target_path \in TargetPool
              /\ force_format \in ForceFormats
         [] mode = "interactive" ->
              /\ source_paths \in InteractiveSources
              /\ target_path = ""
              /\ force_format = ""
    /\ start = [files |-> files, dirs |-> dirs, sources |-> source_paths]
    /\ pc = "main"
    /\ NothingDoneYet
    /\ DefaultTuning

Next ==
    \/ MainSingle
    \/ MainMulti
    \/ InteractiveRun
    \/ Checking
    \/ ChooseOverwrite
    \/ ChooseCancel
    \/ ChooseRename
    \/ RenameInput
    \/ InputClosed
    \/ CallerCancelled
    \/ RunCompress
    \/ RunDecompress
    \/ ConfirmClosed

Spec == Init /\ [][Next]_vars

(***************************************************************************)
(* Recognition on its own: file_type::recognize_source_type applied to one *)
(* regular file whose name and content are drawn from the pools below      *)
(***************************************************************************)
\* the signatures recognize_by_header tests at offset 0, and no signature
Signatures == {<<80, 75, 3, 4>>, <<80, 75, 5, 6>>, <<80, 75, 1, 2>>, <<82, 97, 114, 33>>,
               <<55, 122, 188, 175, 39, 28>>, <<31, 139>>, <<66, 90, 104>>,
               <<253, 55, 122, 88, 90, 0>>, <<4, 34, 77, 24>>, <<40, 181, 47, 253>>,
               <<34, 181, 47, 253>>, <<>>}

\* file lengths on both sides of the 4, 6 and 16 byte thresholds of the reads,
\* of the ustar field (257..261) and of the 512-byte block
SniffLengths == {2, 3, 4, 6, 14, 15, 16, 20, 262, 600}

\* the byte every offset without signature holds: NUL, 'A' or 0xFF
FillBytes == {0, 65, 255}

SniffNames == {"x", "x.rar", "x.zip", "X.TAR.GZ", "x.7z", "x.txt", ".zip", "x.z01"}

\* the files of the pools: the signature fits in the file, and so does "ustar"
SniffContents ==
    {f \in [len : SniffLengths, sig : Signatures, fill : FillBytes, ustar : BOOLEAN,
            readable : BOOLEAN] :
        /\ f.len >= Len(f.sig)
        /\ f.ustar => f.len >= 257 + Len(UstarBytes)}

\* directories to recognise, one of them named like an archive
SniffDirs == {"d", "d.zip"}

SniffInit ==
    /\ \/ \E name \in SniffNames :
             /\ files = {name}
             /\ dirs = {}
             /\ content \in [{name} -> SniffContents]
             /\ source_paths = <<name>>
       \/ \E name \in SniffDirs :
             /\ files = {}
             /\ dirs = {name}
             /\ content = <<>>
             /\ source_paths = <<name>>
    /\ start = [files |-> files, dirs |-> dirs]
    /\ mode = "single"
    /\ target_path = ""
    /\ force_format = ""
    /\ pc = "sniff"
    /\ NothingDoneYet
    /\ DefaultTuning

\* the call file_type::recognize_source_type(source_path)
Sniff ==
    /\ pc = "sniff"
    /\ source_type' = recognize_source_type(source_paths[1]).type
    /\ pc' = "sniffed"
    /\ UNCHANGED <<diskVars, optionVars, resolverVars, ghostVars, target_path, op,
                   target_type, exit_code, prompts, removed, tool_runs, last_msg,
                   source_deleted>>
    /\ UNCHANGED layoutVars
    /\ UNCHANGED <<tuningVars, commandVars>>

SniffNext == Sniff

SpecSniff == SniffInit /\ [][SniffNext]_vars

(***************************************************************************)
(* Inference on its own: file_type::recognize applied to one source and    *)
(* one target, then the --format override of main                          *)
(***************************************************************************)
\* the targets of TargetPool, a compound suffix, and no target at all
InferTargets == TargetPool \cup {"out.tar.gz", "notes", ""}

InferInit ==
    /\ \E k \in 0..Len(OptionalFiles) :
          files = {"a.zip", "notes"} \cup {OptionalFiles[j] : j \in 1..k}
    /\ dirs = {"docs"}
    /\ start = [files |-> files, dirs |-> dirs]
    /\ content = [p \in {"a.zip", "notes"} |-> IF p = "a.zip" THEN ZipContent ELSE JunkContent]
    /\ mode = "single"
    /\ \E s \in SourcePool : source_paths = <<s>>
    /\ target_path \in InferTargets
    /\ force_format \in ForceFormats
    /\ pc = "infer"
    /\ NothingDoneYet
    /\ DefaultTuning

\* a RecognitionResult, or the error thrown instead, written to the state
InferStep(rec, next) ==
    /\ op' = rec.operation
    /\ source_type' = rec.source_type
    /\ target_type' = rec.target_type_hint
    /\ exit_code' = ErrorCodeValue(rec.err)
    /\ pc' = next

\* line 1896: result = file_type::recognize(source_path, target_path)
Recognize ==
    /\ pc = "infer"
    /\ InferStep(recognize(source_paths[1], target_path), "inferred")
    /\ UNCHANGED <<diskVars, optionVars, resolverVars, ghostVars, target_path, prompts,
                   removed, tool_runs, last_msg, source_deleted>>
    /\ UNCHANGED layoutVars
    /\ UNCHANGED <<tuningVars, commandVars>>

\* lines 1898-1918 on the result recognize returned
Override ==
    /\ pc = "inferred"
    /\ exit_code = 0
    /\ InferStep(ForceAndCheck([err |-> "SUCCESS", source_type |-> source_type,
                                target_type_hint |-> target_type, operation |-> op],
                               force_format, parse_format_string(force_format)),
                 "forced")
    /\ UNCHANGED <<diskVars, optionVars, resolverVars, ghostVars, target_path, prompts,
                   removed, tool_runs, last_msg, source_deleted>>
    /\ UNCHANGED layoutVars
    /\ UNCHANGED <<tuningVars, commandVars>>

InferNext == Recognize \/ Override

SpecInfer == InferInit /\ [][InferNext]_vars

(***************************************************************************)
(* The layout on its own: operation::compress up to the choice of the      *)
(* tool, applied to lists of sources written in several ways               *)
(***************************************************************************)
MaxSources == 2

\* the working directory is /x; a is a directory, b a file, w a directory
\* beside x
LayoutFiles == {"b", "a/f"}
LayoutDirs  == {"a", "a/c", "/w"}
LayoutPaths == {"a", "a/", "b", "a/f", "a/c/", ".", "./", "..", "/", "/x", "/x/a", "/x/b",
                "/w", "a/../b", "missing"}
LayoutSourceLists == UNION {[1..n -> LayoutPaths] : n \in 1..MaxSources}

LayoutInit ==
    /\ files = LayoutFiles
    /\ dirs = LayoutDirs
    /\ start = [files |-> files, dirs |-> dirs]
    /\ content = [p \in LayoutFiles |-> JunkContent]
    /\ source_paths \in LayoutSourceLists
    /\ mode = IF Len(source_paths) = 1 THEN "single" ELSE "multi"
    /\ target_path = "out.zip"
    /\ force_format = ""
    /\ pc = "compress"
    /\ NothingDoneYet
    /\ DefaultTuning

\* lines 1297-1360 of operation::compress
PlanCompress ==
    /\ pc = "compress"
    /\ IF \E k \in 1..Len(source_paths) : ~PathExists(source_paths[k])
         THEN /\ Exit("INVALID_SOURCE")
              /\ UNCHANGED layoutVars
         ELSE /\ LayoutStep(PlanLayout(CompressionSources(source_paths)))
              /\ pc' = "planned"
              /\ UNCHANGED exit_code
    /\ UNCHANGED <<diskVars, optionVars, resultVars, resolverVars, ghostVars, target_path,
                   prompts, removed, tool_runs, last_msg, source_deleted>>
    /\ UNCHANGED <<tuningVars, commandVars>>

LayoutNext == PlanCompress

SpecLayout == LayoutInit /\ [][LayoutNext]_vars

(***************************************************************************)
(* The operations on their own: operation::compress and                    *)
(* operation::decompress called with a resolved target, for every format   *)
(* and with the options that reach them                                    *)
(***************************************************************************)
\* a.zip is the main file of a split archive with part a.z01; b.z02 and
\* B.Z03 are parts whose main file is missing; c.zip is not split
ToolFiles == {"a.zip", "a.z01", "b.z02", "B.Z03", "c.zip", "notes"}
ToolCompressSources == {<<"notes">>, <<"docs/">>, <<"docs", "notes">>, <<"missing">>}
ToolCompressFormats ==
    TarFamily \cup {"ARCHIVE_ZIP", "ARCHIVE_7Z", "ARCHIVE_LZ4", "ARCHIVE_ZSTD", "ARCHIVE_XAR",
                    "ARCHIVE_RAR"}
ToolArchives == {"a.zip", "a.z01", "b.z02", "B.Z03", "c.zip", "notes"}
ToolSourceTypes ==
    {"ARCHIVE_ZIP", "ARCHIVE_7Z", "ARCHIVE_TAR_GZ", "ARCHIVE_RAR", "ARCHIVE_ZSTD", "REGULAR_FILE"}
ThreadCounts == {0, 4}
Levels == {0, 9}
Passwords == {"", "pw"}
PatternLists == {<<>>, <<"notes">>}

ToolInit ==
    /\ files = ToolFiles
    /\ dirs = {"docs"}
    /\ start = [files |-> files, dirs |-> dirs]
    /\ content = [p \in ToolFiles |-> JunkContent]
    /\ force_format = ""
    /\ password \in Passwords
    /\ \/ /\ op = "COMPRESS"
          /\ source_paths \in ToolCompressSources
          /\ source_type = "UNKNOWN"
          /\ target_type \in ToolCompressFormats
          /\ target_path = "out"
          /\ thread_count \in ThreadCounts
          /\ verify \in BOOLEAN
          /\ compression_level \in Levels
          /\ exclude_patterns \in PatternLists
          /\ include_patterns \in PatternLists
       \/ /\ op = "DECOMPRESS"
          /\ \E s \in ToolArchives : source_paths = <<s>>
          /\ source_type \in ToolSourceTypes
          /\ target_type = "UNKNOWN"
          /\ target_path \in {"docs", "newdir"}
          /\ thread_count = 0
          /\ verify = FALSE
          /\ compression_level = 0
          /\ exclude_patterns = <<>>
          /\ include_patterns = <<>>
    /\ mode = IF Len(source_paths) = 1 THEN "single" ELSE "multi"
    /\ pc = "Resolved"
    /\ NothingRunYet

ToolNext == RunCompress \/ RunDecompress

SpecTool == ToolInit /\ [][ToolNext]_vars

(***************************************************************************)
(* The resolver on its own, with a user who chooses Rename and then        *)
(* accepts every proposed default                                          *)
(***************************************************************************)
\* the paths that may exist beside a.zip, notes and docs
RenameNeighbours == {"out.zip", "out_1.zip", "out_2.zip"}

\* the state resolve_existing_target starts in (lines 294-296)
RenameInit ==
    /\ \E present \in SUBSET RenameNeighbours : files = {"a.zip", "notes"} \cup present
    /\ dirs = {"docs"}
    /\ start = [files |-> files, dirs |-> dirs]
    /\ content = [p \in {"a.zip", "notes"} |-> IF p = "a.zip" THEN ZipContent ELSE JunkContent]
    /\ mode = "single"
    /\ source_paths = <<"notes">>
    /\ force_format = ""
    /\ op = "COMPRESS"
    /\ source_type = "REGULAR_FILE"
    /\ target_type = "ARCHIVE_ZIP"
    /\ target_path \in TargetPool
    /\ original_target = target_path
    /\ rename_base = target_path
    /\ suffix_counter = 1
    /\ default_candidate = ""
    /\ pc = "Checking"
    /\ exit_code = 0
    /\ prompts = 0
    /\ removed = {}
    /\ tool_runs = 0
    /\ last_msg = ""
    /\ last_entry = ""
    /\ last_default = ""
    /\ last_counter = 0
    /\ last_base = ""
    /\ source_deleted = FALSE
    /\ base_dir = <<>>
    /\ items_to_archive = <<>>
    /\ working_dir_for_cmd = ""
    /\ executed = <<>>
    /\ probed = <<>>
    /\ reported = <<>>
    /\ confirmed_delete = FALSE
    /\ DefaultTuning

\* prompt_new_path returns the empty entry: the default is the candidate
AcceptDefault ==
    /\ pc = "AwaitingRenameInput"
    /\ RenameEntry(EnteredCandidate("", default_candidate))
    /\ UNCHANGED <<diskVars, optionVars, resultVars, original_target,
                   exit_code, removed, tool_runs, source_deleted>>
    /\ UNCHANGED layoutVars
    /\ UNCHANGED <<tuningVars, commandVars>>

RenameNext == Checking \/ ChooseRename \/ AcceptDefault

\* the resolver runs on and the user answers every prompt
SpecRename == RenameInit /\ [][RenameNext]_vars /\ WF_vars(RenameNext)

(***************************************************************************)
(* The loop of determine_common_base, one iteration at a time              *)
(***************************************************************************)
\* existing sources at several depths, on the disk of LayoutInit
WalkPaths == {"a", "a/f", "a/c/", "b", ".", "/", "/w"}
WalkSourceLists == UNION {[1..n -> WalkPaths] : n \in 1..MaxSources}

WalkInit ==
    /\ files = LayoutFiles
    /\ dirs = LayoutDirs
    /\ start = [files |-> files, dirs |-> dirs]
    /\ content = [p \in LayoutFiles |-> JunkContent]
    /\ source_paths \in WalkSourceLists
    /\ mode = IF Len(source_paths) = 1 THEN "single" ELSE "multi"
    /\ target_path = "out.zip"
    /\ force_format = ""
    /\ pc = "compress"
    /\ NothingDoneYet
    /\ DefaultTuning

\* lines 1262-1267: determine_common_base is called with the canonical
\* paths of existing sources and starts at the parent of the first
EnterWalk ==
    /\ pc = "compress"
    /\ \A k \in 1..Len(source_paths) : PathExists(source_paths[k])
    /\ base_dir' = ParentOf(weakly_canonical(source_paths[1]))
    /\ pc' = "walk"
    /\ UNCHANGED <<diskVars, optionVars, resultVars, resolverVars, ghostVars, target_path,
                   exit_code, prompts, removed, tool_runs, last_msg, source_deleted,
                   items_to_archive, working_dir_for_cmd, tuningVars, commandVars>>

\* lines 1269-1276: one iteration, which returns base or goes to its parent
WalkUp ==
    /\ pc = "walk"
    /\ IF \A k \in 1..Len(source_paths) :
             is_descendant_or_same(base_dir, weakly_canonical(source_paths[k]))
         THEN /\ pc' = "returned"
              /\ UNCHANGED base_dir
         ELSE /\ base_dir' = ParentOf(base_dir)
              /\ UNCHANGED pc
    /\ UNCHANGED <<diskVars, optionVars, resultVars, resolverVars, ghostVars, target_path,
                   exit_code, prompts, removed, tool_runs, last_msg, source_deleted,
                   items_to_archive, working_dir_for_cmd, tuningVars, commandVars>>

WalkNext == EnterWalk \/ WalkUp

\* the loop runs on
SpecWalk == WalkInit /\ [][WalkNext]_vars /\ WF_vars(WalkNext)

(***************************************************************************)
(* Properties                                                              *)
(***************************************************************************)
\* the format a file's leading signature (or its ustar field) stands for
SignatureFormat(f) ==
    CASE f.sig \in {<<80, 75, 3, 4>>, <<80, 75, 5, 6>>, <<80, 75, 1, 2>>} -> "ARCHIVE_ZIP"
      [] f.sig = <<82, 97, 114, 33>>                -> "ARCHIVE_RAR"
      [] f.sig = <<55, 122, 188, 175, 39, 28>>      -> "ARCHIVE_7Z"
      [] f.sig = <<31, 139>>                        -> "ARCHIVE_TAR_GZ"
      [] f.sig = <<66, 90, 104>>                    -> "ARCHIVE_TAR_BZ2"
      [] f.sig = <<253, 55, 122, 88, 90, 0>>        -> "ARCHIVE_TAR_XZ"
      [] f.sig = <<4, 34, 77, 24>>                  -> "ARCHIVE_LZ4"
      [] f.sig \in {<<40, 181, 47, 253>>, <<34, 181, 47, 253>>} -> "ARCHIVE_ZSTD"
      [] f.sig = <<>> /\ f.ustar                    -> "ARCHIVE_TAR"
      [] OTHER                                      -> "UNKNOWN"

SniffedFile == ContentOf(source_paths[1])

\* C1: a readable regular file whose first bytes are the signature of a
\* format F (or that holds "ustar" at offset 257) is recognised as F by
\* recognize_source_type, whatever its extension and whatever its length.
C1_SignatureBeatsExtension ==
    (pc = "sniffed" /\ SniffedFile.readable /\ SignatureFormat(SniffedFile) # "UNKNOWN")
        => source_type = SignatureFormat(SniffedFile)

\* C1, the case that fails: a 14-byte bzip2 stream named x.rar is taken for
\* a RAR archive, because reading 16 bytes from it sets the stream's failbit
C1_ShortFileFollowsExtension ==
    /\ pc = "sniffed"
    /\ source_paths = <<"x.rar">>
    /\ SniffedFile.readable
    /\ SniffedFile.sig = <<66, 90, 104>>
    /\ SniffedFile.len = 14
    /\ source_type = "ARCHIVE_RAR"

\* fs::exists on the disk the command started with
StartExists(p) ==
    \/ Canon(p) \in start.dirs \cup {"."}
    \/ (Canon(p) \in start.files /\ ~EndsWith(p, "/"))

\* the target the user gave: the resolver keeps it in original_target
GivenTarget == IF original_target # "" THEN original_target ELSE target_path

\* a source and the given target named the same existing entity at the start
SamePathGiven ==
    /\ pc # "main"
    /\ GivenTarget # ""
    /\ StartExists(GivenTarget)
    /\ \E k \in 1..Len(source_paths) :
          StartExists(source_paths[k]) /\ Canon(source_paths[k]) = Canon(GivenTarget)

\* C2: when a source and the target name the same existing entity, the
\* command ends with exit status 4 and the resolver has asked nothing and
\* removed nothing and no archiver was started, in every mode (one source,
\* several sources, interactive).
C2_SamePathFailsFirst ==
    SamePathGiven =>
        /\ prompts = 0
        /\ removed = {}
        /\ tool_runs = 0
        /\ pc = "exited"
        /\ exit_code = ErrorCodeValue("SAME_PATH")

\* C2, the case that fails: in interactive mode the resolver removed the
\* source itself, which was also given as the target
C2_InteractiveRemovesSource ==
    /\ mode = "interactive"
    /\ SamePathGiven
    /\ Canon(source_paths[1]) \in removed

\* C3: a command that ends with InvalidSource (2), UnknownFormat (5) or
\* ToolNotFound (6) has not asked the user anything and has not removed
\* the existing target, because the resolver runs only after the checks of
\* the operation (here for a target that is not one of the sources).
C3_ChecksBeforeResolver ==
    (/\ pc = "exited"
     /\ ~SamePathGiven
     /\ exit_code \in {ErrorCodeValue("INVALID_SOURCE"), ErrorCodeValue("UNKNOWN_FORMAT"),
                       ErrorCodeValue("TOOL_NOT_FOUND")})
        => (prompts = 0 /\ removed = {})

\* C3, the case that fails: the existing target was removed on the user's
\* Overwrite and then the command ended with ToolNotFound
C3_TargetRemovedThenToolNotFound ==
    /\ pc = "exited"
    /\ mode = "single"
    /\ exit_code = ErrorCodeValue("TOOL_NOT_FOUND")
    /\ Canon(original_target) \in removed
    /\ tool_runs = 0

\* the states of resolve_existing_target before it returns
ResolverStates == {"Checking", "AwaitingAction", "AwaitingRenameInput"}

\* C4: the resolver starts in Checking with the target the user gave; a
\* target that does not exist is Resolved at once, unchanged and without a
\* prompt; and a Resolved target is never empty and never an existing
\* regular file: either it does not exist, or it is a directory the user
\* chose to overwrite.
C4_ResolvedIsUsable ==
    /\ [][(pc = "main" /\ pc' # "main" /\ pc' # "exited")
             => /\ pc' = "Checking"
                /\ original_target' = target_path'
                /\ prompts' = 0
                /\ (mode # "interactive" => target_path' = target_path)]_vars
    /\ [][(pc = "Checking" /\ ~Exists(target_path))
             => (pc' = "Resolved" /\ target_path' = target_path /\ prompts' = prompts)]_vars
    /\ [](pc = "Resolved"
             => /\ target_path # ""
                /\ ~IsRegularFile(target_path)
                /\ \/ ~Exists(target_path)
                   \/ (IsDirectory(target_path)
                       /\ last_msg = "target_exists_keep_directory"))

\* C4, reached: Resolved with a renamed target that does not exist
C4_ResolvedAfterRename ==
    /\ pc = "Resolved"
    /\ target_path # original_target
    /\ StartExists(original_target)
    /\ ~Exists(target_path)

\* C5: when the resolver ends Cancelled it has removed nothing, the disk is
\* the one the command started with, the target is the one the user gave,
\* and the caller exits with status 0 without starting an archiver and
\* without touching the disk.
C5_CancelTouchesNothing ==
    /\ [](pc = "Cancelled"
             => /\ removed = {}
                /\ files = start.files
                /\ dirs = start.dirs
                /\ target_path = original_target
                /\ tool_runs = 0)
    /\ [][pc = "Cancelled"
             => /\ pc' = "exited"
                /\ exit_code' = 0
                /\ tool_runs' = 0
                /\ files' = files
                /\ dirs' = dirs]_vars

\* C5, reached: Cancelled after an Overwrite whose removal failed
C5_CancelledAfterFailedRemoval ==
    /\ pc = "Cancelled"
    /\ last_msg = "target_exists_remove_failed"
    /\ prompts >= 2

\* C6: an Overwrite decision on a directory target removes nothing, emits
\* the keep-directory warning and returns Resolved with the same path; and
\* no step of the resolver ever removes a directory.
C6_DirectoryIsKept ==
    /\ [][(pc = "AwaitingAction" /\ IsDirectory(target_path)
             /\ pc' \in {"Resolved", "Checking"})
             => /\ pc' = "Resolved"
                /\ last_msg' = "target_exists_keep_directory"
                /\ UNCHANGED <<files, dirs, removed, target_path>>]_vars
    /\ [][(pc \in ResolverStates) => (dirs' = dirs)]_vars
    /\ [](removed \cap start.dirs = {})

\* C6, reached: Resolved on a directory the user chose to overwrite
C6_DirectoryOverwritten ==
    /\ pc = "Resolved"
    /\ IsDirectory(target_path)
    /\ Canon(target_path) \in start.dirs
    /\ last_msg = "target_exists_keep_directory"
    /\ removed = {}

\* C7: an Overwrite decision on a regular file removes exactly that file
\* and returns Resolved with the same path; when the removal fails, the
\* failure is reported, the disk, the target, the rename base and the
\* counter are unchanged, and the resolver asks for an action again.
C7_FileIsRemovedOrAskedAgain ==
    /\ [][(pc = "AwaitingAction" /\ ~IsDirectory(target_path) /\ pc' = "Resolved")
             => /\ files' = files \ {Canon(target_path)}
                /\ removed' = removed \cup {Canon(target_path)}
                /\ UNCHANGED <<dirs, target_path>>]_vars
    /\ [][(pc = "AwaitingAction" /\ ~IsDirectory(target_path) /\ pc' = "Checking")
             => /\ last_msg' = "target_exists_remove_failed"
                /\ UNCHANGED <<files, dirs, removed, target_path, rename_base,
                               suffix_counter, exit_code>>]_vars
    /\ [][(pc = "Checking" /\ last_msg = "target_exists_remove_failed")
             => pc' = "AwaitingAction"]_vars

\* C7, reached: asked for an action again after a removal that failed
C7_AskedAgainAfterFailure ==
    /\ pc = "AwaitingAction"
    /\ last_msg = "target_exists_remove_failed"
    /\ prompts >= 2
    /\ IsRegularFile(target_path)
    /\ removed = {}

\* <stem>_<N><ext> beside the base, for a base without compound extension:
\* what precedes the last dot of the file name, "_", N, and what follows; a
\* stem that is empty, "." or ".." is written "target"
NameStem(base) == IF stem(base) \in {"", ".", ".."} THEN "target" ELSE stem(base)

Suffixed(base, n) ==
    PathJoin(parent_path(base), NameStem(base) \o "_" \o ToString(n) \o extension(base))

\* a rename entry was rejected: the resolver asks for a path again
Rejected ==
    /\ pc = "AwaitingRenameInput"
    /\ pc' = "AwaitingRenameInput"
    /\ prompts' # prompts

\* C8: the default proposed by the rename prompt is <stem>_<N><ext> of the
\* rename base; N is 1 on the first proposal; and each time the default
\* itself is the rejected entry, N grows by exactly 1 and the base stays.
\* For out.zip the defaults are out_1.zip, then out_2.zip.
C8_DefaultIsSequential ==
    /\ [](pc = "AwaitingRenameInput"
             => default_candidate = Suffixed(rename_base, suffix_counter))
    /\ [][(pc = "AwaitingAction" /\ pc' = "AwaitingRenameInput")
             => /\ suffix_counter' = 1
                /\ rename_base' = original_target
                /\ default_candidate' = Suffixed(original_target, 1)]_vars
    /\ [][(Rejected /\ last_entry' = default_candidate)
             => /\ suffix_counter' = suffix_counter + 1
                /\ rename_base' = rename_base
                /\ default_candidate' = Suffixed(rename_base, suffix_counter + 1)]_vars
    /\ []((pc = "AwaitingRenameInput" /\ rename_base = "out.zip")
             => /\ suffix_counter = 1 => default_candidate = "out_1.zip"
                /\ suffix_counter = 2 => default_candidate = "out_2.zip")

\* C8, reached: out_1.zip was proposed for out.zip and rejected because it
\* exists, and out_2.zip is proposed next
C8_SecondDefault ==
    /\ pc = "AwaitingRenameInput"
    /\ original_target = "out.zip"
    /\ rename_base = "out.zip"
    /\ last_default = "out_1.zip"
    /\ last_entry = "out_1.zip"
    /\ last_msg = "target_exists_rename_conflict"
    /\ default_candidate = "out_2.zip"

\* C9 as stated: after every rejected rename entry the next default differs
\* from the default of the rejected prompt, for a rejected default and for
\* a rejected custom path alike.
C9_DefaultAlwaysChanges ==
    [][Rejected => (default_candidate' # default_candidate)]_vars

\* C9, amended: an entry is rejected exactly when it equals the path being
\* replaced or exists on disk; the rejection is reported with that reason
\* and the resolver asks again.  The next default differs when the rejected
\* entry was the default (N + 1); it is <custom>_1 when a custom path was
\* rejected because it exists; it is unchanged when a custom path was
\* rejected because it equals the path being replaced.
C9_RejectionUpdatesDefault ==
    /\ [][Rejected
             => /\ (last_entry' = target_path \/ Exists(last_entry'))
                /\ last_msg' = IF last_entry' = target_path
                                 THEN "target_exists_same"
                                 ELSE "target_exists_rename_conflict"
                /\ target_path' = target_path
                /\ default_candidate' =
                      IF last_entry' = default_candidate
                        THEN Suffixed(rename_base, suffix_counter + 1)
                      ELSE IF last_entry' = target_path THEN default_candidate
                      ELSE Suffixed(last_entry', 1)
                /\ (last_entry' = default_candidate
                      => default_candidate' # default_candidate)]_vars
    /\ [][(pc = "AwaitingRenameInput" /\ pc' = "Checking")
             => /\ target_path' = last_entry'
                /\ target_path' # target_path
                /\ ~Exists(target_path')]_vars

\* C9, reached: a custom entry equal to the path being replaced was
\* rejected and the same default is proposed again
C9_SameDefaultAgain ==
    /\ pc = "AwaitingRenameInput"
    /\ last_entry = target_path
    /\ last_entry # last_default
    /\ last_msg = "target_exists_same"
    /\ default_candidate = last_default

\* C10: a custom rename path (not the proposed default) that is rejected
\* because it exists becomes the rename base and N restarts at 1: the next
\* default is <custom stem>_1<custom ext>, whatever the counter was.
C10_CustomPathIsNewBase ==
    [][(Rejected /\ last_entry' # default_candidate /\ last_entry' # target_path)
          => /\ Exists(last_entry')
             /\ rename_base' = last_entry'
             /\ suffix_counter' = 1
             /\ default_candidate' = Suffixed(last_entry', 1)]_vars

\* C10, reached: the counter had grown to 2 on the old base when an
\* existing custom path was entered, and the new default is <custom>_1
C10_CounterRestarted ==
    /\ pc = "AwaitingRenameInput"
    /\ last_counter = 2
    /\ last_entry # last_default
    /\ last_base # last_entry
    /\ rename_base = last_entry
    /\ suffix_counter = 1
    /\ default_candidate = Suffixed(last_entry, 1)

\* C11: in recognize_by_header a read shorter than one check needs skips
\* only that check; the checks the bytes read suffice for are still made
\* (the 4-byte ZIP, RAR, LZ4 and Zstandard checks on a file of 4 to 15
\* bytes), so the sniffer answers Unknown only when no signature matches.
C11_UnknownOnlyWithoutSignature ==
    (/\ pc = "sniffed"
     /\ IsRegularFile(source_paths[1])
     /\ SniffedFile.readable
     /\ recognize_by_header(SniffedFile) = "UNKNOWN")
        => SignatureFormat(SniffedFile) = "UNKNOWN"

\* C11, the case that fails: a 15-byte file with the LZ4 signature and no
\* extension is Unknown to the sniffer and ends as a plain file
C11_ShortLz4IsPlainFile ==
    /\ pc = "sniffed"
    /\ source_paths = <<"x">>
    /\ SniffedFile.readable
    /\ SniffedFile.sig = <<4, 34, 77, 24>>
    /\ SniffedFile.len = 15
    /\ recognize_by_header(SniffedFile) = "UNKNOWN"
    /\ source_type = "REGULAR_FILE"

\* C12: for an existing regular file on which the sniffer answers Unknown,
\* recognize_source_type is recognize_by_extension(path) when that is an
\* archive tag and REGULAR_FILE otherwise; a directory is DIRECTORY; the
\* answer is never Unknown.
C12_FallsBackToExtension ==
    pc = "sniffed"
        => /\ source_type # "UNKNOWN"
           /\ IsDirectory(source_paths[1]) => source_type = "DIRECTORY"
           /\ (IsRegularFile(source_paths[1])
               /\ recognize_by_header(SniffedFile) = "UNKNOWN")
                 => source_type =
                      IF recognize_by_extension(source_paths[1]) # "UNKNOWN"
                        THEN recognize_by_extension(source_paths[1])
                        ELSE "REGULAR_FILE"

\* C12, reached: a file without signature is classified by its extension,
\* case-insensitively and across the compound suffix
C12_ExtensionDecides ==
    /\ pc = "sniffed"
    /\ source_paths = <<"X.TAR.GZ">>
    /\ SniffedFile.sig = <<>>
    /\ ~SniffedFile.ustar
    /\ recognize_by_header(SniffedFile) = "UNKNOWN"
    /\ source_type = "ARCHIVE_TAR_GZ"

\* the tags of a source to compress
PlainTags == {"DIRECTORY", "REGULAR_FILE"}

\* C13: when recognize returns normally the operation is COMPRESS exactly
\* when the source's tag is DIRECTORY or REGULAR_FILE, and then the
\* target hint is recognize_by_extension(target) (Unknown without archive
\* suffix); it is DECOMPRESS exactly when the tag is an archive tag; it is
\* never left Unknown.
C13_OperationFollowsSourceTag ==
    (pc = "inferred" /\ exit_code = 0)
        => /\ source_type = recognize_source_type(source_paths[1]).type
           /\ op \in {"COMPRESS", "DECOMPRESS"}
           /\ (op = "COMPRESS") <=> (source_type \in PlainTags)
           /\ (op = "DECOMPRESS") <=> (source_type \in FileTypes \ (PlainTags \cup {"UNKNOWN"}))
           /\ (op = "COMPRESS") => (target_type = recognize_by_extension(target_path))

\* C13, reached: a plain file and a target with a compound archive suffix
C13_CompressToTarGz ==
    /\ pc = "inferred"
    /\ exit_code = 0
    /\ source_paths = <<"notes">>
    /\ target_path = "out.tar.gz"
    /\ op = "COMPRESS"
    /\ source_type = "REGULAR_FILE"
    /\ target_type = "ARCHIVE_TAR_GZ"

\* C16: a valid --format value replaces the target hint when the inferred
\* operation is COMPRESS and the source tag when it is DECOMPRESS, and
\* leaves the other field and the operation as inferred; the forced tag is
\* taken as it is (the source's signature and extension are not consulted
\* again); a value that names no format fails with UnknownFormat.
C16_ForcedFormatOverrides ==
    [][(pc = "inferred" /\ pc' = "forced" /\ force_format # "")
          => IF parse_format_string(force_format) = "UNKNOWN"
               THEN exit_code' = ErrorCodeValue("UNKNOWN_FORMAT")
               ELSE /\ exit_code' = 0
                    /\ op' = op
                    /\ (op = "COMPRESS")
                         => /\ target_type' = parse_format_string(force_format)
                            /\ source_type' = source_type
                    /\ (op = "DECOMPRESS")
                         => /\ source_type' = parse_format_string(force_format)
                            /\ target_type' = target_type]_vars

\* C16, reached: a.zip carries the ZIP signature and extension, and with
\* --format=RAR its tag is RAR, the operation still DECOMPRESS
C16_ZipForcedToRar ==
    /\ pc = "forced"
    /\ exit_code = 0
    /\ source_paths = <<"a.zip">>
    /\ force_format = "RAR"
    /\ recognize_source_type("a.zip").type = "ARCHIVE_ZIP"
    /\ source_type = "ARCHIVE_RAR"
    /\ DecompressTool(source_type) = "unrar"
    /\ op = "DECOMPRESS"

\* main is about to call recognize for its one source: the same-path check
\* before it did not throw
ReachesRecognize ==
    /\ pc = "main"
    /\ mode = "single"
    /\ ~Equivalent(source_paths[1], target_path)

\* the one source is recognised as an archive
SourceIsArchive ==
    /\ recognize_source_type(source_paths[1]).err = "SUCCESS"
    /\ recognize_source_type(source_paths[1]).type \notin PlainTags

\* main ends in this step with the given error
FailsBeforeResolver(code) ==
    /\ pc' = "exited"
    /\ exit_code' = ErrorCodeValue(code)

\* after the step the resolver was not entered, nothing was asked, nothing
\* removed, no tool started
NothingTouched ==
    /\ original_target' = ""
    /\ prompts' = 0
    /\ removed' = {}
    /\ tool_runs' = 0
    /\ files' = files
    /\ dirs' = dirs

\* C14: when recognize is called with an archive source it raises
\* InvalidTarget exactly when the target exists and is not a directory (an
\* existing directory and a target that does not exist raise nothing), and
\* it is raised before the resolver is entered and before any tool runs.
C14_InvalidTargetIffExistingFile ==
    [][(ReachesRecognize /\ SourceIsArchive)
          => /\ FailsBeforeResolver("INVALID_TARGET")
                   <=> (Exists(target_path) /\ ~IsDirectory(target_path))
             /\ FailsBeforeResolver("INVALID_TARGET") => NothingTouched]_vars

\* C14, reached: a.zip is to be extracted to out.zip, an existing file
C14_ExtractOntoFile ==
    /\ pc = "exited"
    /\ exit_code = ErrorCodeValue("INVALID_TARGET")
    /\ mode = "single"
    /\ source_paths = <<"a.zip">>
    /\ target_path = "out.zip"
    /\ "out.zip" \in files
    /\ original_target = ""
    /\ prompts = 0
    /\ tool_runs = 0

\* a compression is asked for: several sources, or one source that is a
\* directory or a plain file
CompressionRequested ==
    \/ mode = "multi"
    \/ /\ mode = "single"
       /\ recognize_source_type(source_paths[1]).err = "SUCCESS"
       /\ recognize_source_type(source_paths[1]).type \in PlainTags

\* the target has no archive suffix and no --format was given
NoFormatGiven ==
    /\ force_format = ""
    /\ recognize_by_extension(target_path) \in PlainTags \cup {"UNKNOWN"}

\* the target names one of the sources, which exists
TargetIsASource ==
    \E k \in 1..Len(source_paths) : Equivalent(source_paths[k], target_path)

\* C15 as stated: a compression (one source or several) whose target has no
\* archive suffix, without --format, fails with UnknownFormat (exit status
\* 5): no default format, the resolver is not entered, no target is
\* removed, no tool is started.
C15_NoFormatIsUnknownFormat ==
    [][(pc = "main" /\ CompressionRequested /\ NoFormatGiven)
          => (FailsBeforeResolver("UNKNOWN_FORMAT") /\ NothingTouched)]_vars

\* C15, amended: the same, for a target that is none of the sources; when
\* the target is one of the sources the command fails too, as untouched,
\* with SamePath (exit status 4).
C15_NoFormatFailsUntouched ==
    [][(pc = "main" /\ CompressionRequested /\ NoFormatGiven)
          => /\ NothingTouched
             /\ IF TargetIsASource
                  THEN FailsBeforeResolver("SAME_PATH")
                  ELSE FailsBeforeResolver("UNKNOWN_FORMAT")]_vars

\* C15, reached: two sources and a new target without suffix
C15_MultiWithoutSuffix ==
    /\ pc = "exited"
    /\ exit_code = ErrorCodeValue("UNKNOWN_FORMAT")
    /\ mode = "multi"
    /\ force_format = ""
    /\ target_path = "newdir"
    /\ original_target = ""
    /\ prompts = 0
    /\ tool_runs = 0

\* the canonical path of the k-th source
CanonicalOf(k) == weakly_canonical(source_paths[k])

\* the one source was written with a trailing separator and is a directory
ContentsMode ==
    /\ Len(source_paths) = 1
    /\ has_trailing_slash(source_paths[1])
    /\ is_directory(CanonicalOf(1))

\* d is a directory above c
IsAbove(d, c) == Len(d) < Len(c) /\ SubSeq(c, 1, Len(d)) = d

\* d is a directory above every source
CommonAncestor(d) == \A k \in 1..Len(source_paths) : IsAbove(d, CanonicalOf(k))

\* where an item leads from the base directory
Joined(base, item) ==
    Walk(IF StartsWith(item, "/") THEN <<>> ELSE base, PathParts(item, ""))

\* C17: outside single-contents mode base_dir is the nearest common
\* ancestor directory of the canonical sources and every item is its
\* source's path relative to base_dir.
C17_BaseIsNearestCommonAncestor ==
    (pc = "planned" /\ ~ContentsMode)
        => /\ CommonAncestor(base_dir)
           /\ \A d \in Ancestors(CanonicalOf(1)) : CommonAncestor(d) => Len(d) <= Len(base_dir)
           /\ \A k \in 1..Len(source_paths) :
                 /\ ~StartsWith(items_to_archive[k], "/")
                 /\ base_dir \o PathParts(items_to_archive[k], "") = CanonicalOf(k)

\* C17, the case that fails: /x/a and /x are given in this order, base_dir
\* is /x, which is one of the sources, and the item of /x is "x"
C17_BaseIsASource ==
    /\ pc = "planned"
    /\ source_paths = <<"/x/a", "/x">>
    /\ base_dir = <<"x">>
    /\ items_to_archive = <<"a", "x">>

\* C18: the layout is that of single-contents mode (base_dir the source
\* itself, the one item ".", the tool run in that directory) exactly when one
\* source is given, written with a trailing separator, and it is a
\* directory; in every other case no item is "." and an item ends with the
\* name of its source.
C18_ContentsModeIffOneSlashedDirectory ==
    pc = "planned"
        => /\ ContentsMode
                <=> (/\ base_dir = CanonicalOf(1)
                     /\ items_to_archive = <<".">>
                     /\ working_dir_for_cmd = PathString(CanonicalOf(1)))
           /\ ~ContentsMode
                => \A k \in 1..Len(source_paths) :
                      /\ items_to_archive[k] # "."
                      /\ CanonicalOf(k) # <<>>
                            => /\ PathParts(items_to_archive[k], "") # <<>>
                               /\ PathParts(items_to_archive[k], "")[Len(PathParts(items_to_archive[k], ""))]
                                      = CanonicalOf(k)[Len(CanonicalOf(k))]

\* C18, reached: the contents of directory a
C18_ContentsOfA ==
    /\ pc = "planned"
    /\ source_paths = <<"a/">>
    /\ base_dir = <<"x", "a">>
    /\ items_to_archive = <<".">>
    /\ working_dir_for_cmd = "/x/a"

\* C18, reached too: a trailing separator on one of two sources
C18_SlashedAmongSeveral ==
    /\ pc = "planned"
    /\ source_paths = <<"a/", "b">>
    /\ base_dir = <<"x">>
    /\ items_to_archive = <<"a", "b">>

\* C19: no item of a planned layout has a ".." segment, and every item
\* leads to a place at or below base_dir.
C19_ItemsAreAncestorSafe ==
    pc = "planned"
        => \A k \in 1..Len(items_to_archive) :
              /\ \A i \in 1..Len(PathParts(items_to_archive[k], "")) :
                    PathParts(items_to_archive[k], "")[i] # ".."
              /\ SubSeq(Joined(base_dir, items_to_archive[k]), 1, Len(base_dir)) = base_dir

\* C19, reached: two sources that share only the root
C19_SourcesFarApart ==
    /\ pc = "planned"
    /\ source_paths = <<"a/f", "/w">>
    /\ base_dir = <<>>
    /\ items_to_archive = <<"x/a/f", "w">>

\* C20: outside single-contents mode there are as many items as sources, in
\* the same order, and base_dir joined with the k-th item is the canonical
\* path of the k-th source, also when a source is base_dir itself.
C20_ItemsDenoteSources ==
    (pc = "planned" /\ ~ContentsMode)
        => /\ Len(items_to_archive) = Len(source_paths)
           /\ \A k \in 1..Len(source_paths) :
                 Joined(base_dir, items_to_archive[k]) = CanonicalOf(k)

\* C20, the case that fails: a/f and a are given, base_dir is a, and the
\* item of a is "a", which names /x/a/a
C20_ItemBelowItsSource ==
    /\ pc = "planned"
    /\ source_paths = <<"a/f", "a">>
    /\ base_dir = <<"x", "a">>
    /\ items_to_archive = <<"f", "a">>
    /\ Joined(base_dir, items_to_archive[2]) = <<"x", "a", "a">>

\* p is written as a part of a split ZIP archive: ".z" or ".Z" and two digits
NamedAsPart(p) ==
    /\ Len(extension(p)) = 4
    /\ SubSeq(extension(p), 1, 2) \in {".z", ".Z"}
    /\ IsDigit(Char(extension(p), 3))
    /\ IsDigit(Char(extension(p), 4))

\* the sibling of p with the given extension
Sibling(p, ext) == SubSeq(p, 1, Len(p) - Len(extension(p))) \o ext

\* p is a .zip next to which the first part lies
HasFirstPart(p) == ToLower(extension(p)) = ".zip" /\ Sibling(p, ".z01") \in files

\* the words of an argument vector
Words(v) == {v[i] : i \in 1..Len(v)}

\* a ZIP source has been given to operation::decompress, which has returned
ZipExtracted ==
    /\ pc = "exited"
    /\ op = "DECOMPRESS"
    /\ source_type = "ARCHIVE_ZIP"

C21_PartWithoutMain ==
    /\ ZipExtracted
    /\ source_paths = <<"b.z02">>
    /\ exit_code = ErrorCodeValue("INVALID_SOURCE")
    /\ executed = <<>>

\* the tool of the resolved operation and format
MainTool ==
    IF op = "COMPRESS" THEN CompressTool(target_type)
    ELSE DecompressToolFor(source_paths[1], source_type)

\* C22: the main tool is started at most once, only after is_tool_available
\* answered yes for it; a no gives ToolNotFound with nothing started; a
\* nonzero exit status gives OperationFailed (7) with no second start; and
\* operation complete is reported exactly when the tool returned 0.
C22_OneStartAfterToolCheck ==
    pc = "exited"
        => /\ tool_runs = (IF executed = <<>> THEN 0 ELSE 1)
           /\ Len(executed) <= (IF verify THEN 2 ELSE 1)
           /\ executed # <<>>
                => /\ executed[1].tool = MainTool
                   /\ probed # <<>>
                   /\ probed[1] = [tool |-> MainTool, found |-> TRUE]
           /\ (probed # <<>> /\ ~probed[1].found)
                => /\ executed = <<>>
                   /\ exit_code = ErrorCodeValue("TOOL_NOT_FOUND")
           /\ (executed # <<>> /\ executed[1].status # 0)
                => /\ exit_code = ErrorCodeValue("OPERATION_FAILED")
                   /\ Len(executed) = 1
           /\ ("operation_complete" \in Words(reported))
                <=> (executed # <<>> /\ executed[1].status = 0)
           /\ ("operation_complete" \in Words(reported)) => exit_code = 0

\* C22, reached: the archiver returned 1
C22_ToolFailedOnce ==
    /\ pc = "exited"
    /\ op = "COMPRESS"
    /\ Len(executed) = 1
    /\ executed[1].status = 1
    /\ tool_runs = 1
    /\ exit_code = 7
    /\ "operation_complete" \notin Words(reported)

\* the tools that have an option for the number of threads
ThreadedTools == {"7z", "zstd"}

\* C23: when a thread count is given and the format's tool has a thread
\* option, the argument vector of the tool carries the thread count; for
\* the other tools the argument vector is the same as without -t.
C23_ThreadCountIsForwarded ==
    (pc = "exited" /\ op = "COMPRESS" /\ executed # <<>> /\ thread_count > 0)
        => IF executed[1].tool \in ThreadedTools
             THEN \E w \in Words(executed[1].args) :
                     StartsWith(w, "-") /\ EndsWith(w, ToString(thread_count))
             ELSE executed[1].args =
                     CompressArgs(target_type, target_path, items_to_archive, password,
                                  compression_level)

\* C23, the case that fails: docs and notes are packed with 7z and -t4, and
\* the argument vector is the one of a run without -t
C23_SevenZipWithoutThreads ==
    /\ pc = "exited"
    /\ thread_count = 4
    /\ target_type = "ARCHIVE_7Z"
    /\ compression_level = 0
    /\ password = ""
    /\ Len(executed) >= 1
    /\ executed[1].tool = "7z"
    /\ executed[1].args = <<"a", "/x/out", "docs", "notes">>

\* a compression with --verify has succeeded
VerifiedCompression ==
    /\ pc = "exited"
    /\ op = "COMPRESS"
    /\ verify
    /\ exit_code = 0
    /\ executed # <<>>
    /\ executed[1].status = 0

\* C24: after a successful compression with --verify exactly one more
\* command is run, a test of the archive just written, for every format
\* that can be compressed, and exactly one of verification success and
\* verification failure is reported.
C24_VerifyRunsOneTest ==
    VerifiedCompression
        => /\ Len(executed) = 2
           /\ target_path \in Words(executed[2].args)
           /\ ("verification_success" \in Words(reported))
                 # ("verification_failed" \in Words(reported))
           /\ ("verification_success" \in Words(reported)) <=> (executed[2].status = 0)

\* C24, the case that fails: a zstd archive was written with --verify, no
\* test command was run and verification success was reported
C24_ZstdNeverTested ==
    /\ VerifiedCompression
    /\ target_type = "ARCHIVE_ZSTD"
    /\ Len(executed) = 1
    /\ executed[1].tool = "zstd"
    /\ "verification_success" \in Words(reported)

\* C25: every item handed to the archiver passes the filter of the given
\* --exclude and --include patterns (without patterns every item passes).
C25_ItemsPassTheFilter ==
    (pc = "exited" /\ op = "COMPRESS" /\ executed # <<>>)
        => \A k \in 1..Len(items_to_archive) :
              items_to_archive[k] \in Words(executed[1].args)
                 => should_include_file(items_to_archive[k], include_patterns,
                                        exclude_patterns)

\* C25, the case that fails: notes is excluded and handed to zip all the same
C25_ExcludedItemArchived ==
    /\ pc = "exited"
    /\ op = "COMPRESS"
    /\ exclude_patterns = <<"notes">>
    /\ include_patterns = <<>>
    /\ source_paths = <<"docs", "notes">>
    /\ target_type = "ARCHIVE_ZIP"
    /\ executed # <<>>
    /\ "notes" \in Words(executed[1].args)
    /\ ~should_include_file("notes", include_patterns, exclude_patterns)
    /\ exit_code = 0

\* C26: with a user who accepts every default, the rename dialogue ends:
\* the resolver reaches Resolved, after no more prompts than there are
\* existing paths plus two; the resolved path is <stem>_<N><ext> of the
\* given target for the smallest N >= 1 whose path does not exist; and
\* nothing on disk is removed on the way.
C26_DefaultsLeadToResolved ==
    /\ (pc = "AwaitingRenameInput") ~> (pc = "Resolved")
    /\ []((pc = "Resolved" /\ target_path # original_target)
             => \E n \in 1..MaxPrompts :
                   /\ target_path = Suffixed(original_target, n)
                   /\ ~Exists(target_path)
                   /\ \A k \in 1..(n - 1) : Exists(Suffixed(original_target, k)))
    /\ [](prompts <= Cardinality(files) + 2)
    /\ [](removed = {} /\ files = start.files /\ dirs = start.dirs)

\* C26, reached: out.zip, out_1.zip and out_2.zip exist and the resolver
\* settles on out_3.zip
C26_ThirdDefaultTaken ==
    /\ pc = "Resolved"
    /\ original_target = "out.zip"
    /\ {"out.zip", "out_1.zip", "out_2.zip"} \subseteq files
    /\ target_path = "out_3.zip"
    /\ prompts = 4

\* the source is on disk as it was at the start, unless the resolver
\* itself removed it as the target
SourceKept ==
    \A q \in (start.files \cup start.dirs) \ removed :
        (q = Canon(source_paths[1]) \/ StartsWith(q, Canon(source_paths[1]) \o "/"))
           => q \in files \cup dirs

\* the operation returned normally
Completed == pc = "exited" /\ exit_code = 0 /\ "operation_complete" \in Words(reported)

C27_ConfirmedAndDeleted ==
    /\ mode = "interactive"
    /\ Completed
    /\ confirmed_delete
    /\ source_deleted
    /\ Canon(source_paths[1]) \notin files \cup dirs

\* C28: the walk of determine_common_base ends: from the parent of the
\* first source it goes up until every source is a descendant-or-self of
\* the candidate, returns that candidate, which is what
\* determine_common_base yields, and at the root it returns instead of
\* going to the root's parent.
C28_WalkReachesCommonBase ==
    /\ (pc = "walk") ~> (pc = "returned")
    /\ [](pc = "returned"
             => /\ \A k \in 1..Len(source_paths) :
                      is_descendant_or_same(base_dir, CanonicalOf(k))
                /\ base_dir = determine_common_base([k \in 1..Len(source_paths) |-> CanonicalOf(k)]))
    /\ [](pc = "walk" => base_dir \in Ancestors(CanonicalOf(1)) \cup {<<>>})
    /\ [][(pc = "walk" /\ base_dir = <<>>) => (pc' = "returned")]_vars

\* C28, reached: a/f and /w share only the root, where the walk ends after
\* going up twice from /x/a
C28_ReturnedAtRoot ==
    /\ pc = "returned"
    /\ source_paths = <<"a/f", "/w">>
    /\ base_dir = <<>>

\* the states in which the resolver waits for a line of input
WaitingForInput == {"AwaitingAction", "AwaitingRenameInput"}

\* C29: while the resolver waits for an action or a rename path the target
\* still exists, nothing was removed and no archiver was started; and a step
\* that ends the command from there (the input stream was closed) ends it
\* with exit status 99, leaves the disk as it is, removes nothing and starts
\* no archiver.
C29_ClosedInputEndsWithUnknownError ==
    /\ [](pc \in WaitingForInput =>
             /\ Exists(target_path)
             /\ removed = {}
             /\ tool_runs = 0
             /\ executed = <<>>)
    /\ [][(pc \in WaitingForInput /\ pc' = "exited") =>
             (/\ exit_code' = 99
              /\ files' = files
              /\ dirs' = dirs
              /\ removed' = {}
              /\ tool_runs' = 0
              /\ executed' = <<>>
              /\ source_deleted' = source_deleted)]_vars

\* C29, reached: the command ended with 99 after the resolver had asked, the
\* target it asked about is still on disk and no archiver was started
C29_EndedAtThePrompt ==
    /\ pc = "exited"
    /\ exit_code = 99
    /\ mode = "single"
    /\ prompts >= 1
    /\ Exists(target_path)
    /\ removed = {}
    /\ tool_runs = 0

\* two or more sources were written on the command line
SeveralSourcesGiven == Len(start.sources) >= 2

\* the format --format names or, without --format, the one the extension of
\* the target the user wrote names
FormatAsked ==
    IF force_format # "" THEN parse_format_string(force_format)
    ELSE recognize_by_extension(GivenTarget)

\* what the claim says of a command with several sources: no type of a
\* source is resolved, the operation, once chosen, is Compress with the
\* format asked for, and the one archiver started packs every source
PacksEverySource ==
    /\ source_type = "UNKNOWN"
    /\ op \in {"UNKNOWN", "COMPRESS"}
    /\ op = "COMPRESS" => (target_type = FormatAsked /\ target_type # "UNKNOWN")
    /\ executed # <<>>
          => /\ executed[1].tool = CompressTool(FormatAsked)
             /\ Len(items_to_archive) = Len(start.sources)
             /\ \A k \in 1..Len(items_to_archive) :
                   items_to_archive[k] \in Words(executed[1].args)

\* C30 as stated: whenever two or more sources are given on the command
\* line, the operation is Compress, no source's type is resolved, archives
\* among the sources are packed, and the format comes from the target's
\* extension or --format.
C30_SeveralSourcesAlwaysCompress == SeveralSourcesGiven => PacksEverySource

\* the same for a command line without -i, where it holds: main's flow for
\* several sources
C30_SeveralSourcesCompressUnlessInteractive ==
    (SeveralSourcesGiven /\ mode # "interactive") => PacksEverySource

\* without -i the ZIP archive a.zip, given with notes, was packed into
\* out.zip by zip
C30_ArchiveSourcePacked ==
    /\ mode = "multi"
    /\ start.sources = <<"a.zip", "notes">>
    /\ GivenTarget = "out.zip"
    /\ pc = "exited"
    /\ exit_code = 0
    /\ executed # <<>>
    /\ executed[1].tool = "zip"
    /\ "a.zip" \in Words(executed[1].args)

\* C30, the case that fails: with -i the first of the two sources, a ZIP
\* archive, was recognised and extracted
C30_InteractiveExtractsFirstSource ==
    /\ mode = "interactive"
    /\ start.sources = <<"a.zip", "notes">>
    /\ op = "DECOMPRESS"
    /\ source_type = "ARCHIVE_ZIP"
    /\ executed # <<>>
    /\ executed[1].tool = "unzip"

=============================================================================
